---- MODULE Spec2Model ----
(***************************************************************************)
(* Session / token accounting core of circa-zhong.                         *)
(*                                                                         *)
(* Two storage tiers hold session records: the file tier                   *)
(* (~/.cursor/sessions.json + active-session.txt) and the browser cache    *)
(* (localStorage cursor_sessions + cursor_active_session).  The session    *)
(* manager (src/utils/session-manager.js) picks its tier from the          *)
(* environment it runs in, so each of its operations is an action with a   *)
(* tier parameter.  The command-line scripts read and write the file tier  *)
(* directly.  The storage backends themselves are taken to work: a load    *)
(* returns what the last save stored.                                      *)
(*                                                                         *)
(* Time is epoch milliseconds.  The clock moves through the instants of    *)
(* Instants; every timestamp the program takes is the clock's value.       *)
(*                                                                         *)
(* Spec is the session and token accounting system.  SpecLifecycle         *)
(* (session lifecycle on both tiers and the Sync Bridge), SpecAccounting   *)
(* (the file tier's token commands), SpecEntries and SpecMerge run the     *)
(* same actions over longer runs.  SpecRemote adds the remote store        *)
(* (NakamaService) that the browser syncs its project list and its         *)
(* session analytics with.                                                 *)
(***************************************************************************)
EXTENDS Integers, Sequences, FiniteSets, TLC

----------------------------------------------------------------------------
(* Bounds of the model *)

MaxSessions == 2      \* session records ever created (over both tiers)
MaxRows     == 2      \* rows the external activity source ever holds
MaxClock    == 4      \* the clock reaches Instants[MaxClock] at most
MaxLogs     == 1      \* logTokenUsage calls
MaxActs     == 1      \* activities recorded per session
MaxManual   == 1      \* runs of add-tokens-to-session.js
MaxSteps    == 4      \* steps (operations, appended rows, clock ticks) of one run
MaxLifecycleSteps == 6   \* steps of one run of the session lifecycle alone
MaxAccountingSteps == 7  \* steps of one run of the file-tier token accounting alone
MaxEntrySteps == 7       \* steps of one run of the sessions with their Entry Store alone
MaxMergeSteps == 7       \* steps of one run of the two tiers and the merge alone
MaxRemoteSteps == 6      \* steps of one run of the browser with the remote store
MaxStoreSteps == 5       \* steps of one run of the file tier's Entry Store alone
MaxStatsSteps == 7       \* steps of one run of the scripts, the merge and the Aggregator
MaxReconcilerSteps == 6  \* steps of one run of the Reconciler as the only source of entries
MaxQuerySteps == 5       \* steps of one run of the cached sessions and their listing
MaxRaceTicks == 2        \* clock ticks while two processes run startSession
MaxReconcilerRaceSteps == 4  \* steps of the other processes while sync-tokens-to-session.js runs
MaxDeferredSteps == 6        \* operations around one deferred association
MaxDetectSteps == 6          \* operations of one run with detectSessionsFromCursor

(* Program constants *)

SESSION_TIMEOUT_MS == 7200000     \* 2 * 60 * 60 * 1000
HOUR_MS            == 3600000     \* 60 * 60 * 1000
MINUTE_MS          == 60000
CHARS_PER_TOKEN    == 4
MAX_ENTRIES        == 10000

(* Inputs *)

Tiers == {"file", "cache"}

\* T0, T0 + 1 min, T0 + 2 h, T0 + 3 h 29 min, T0 + 5 h 30 min, ...
Instants == <<0, 60000, 7200000, 12540000, 19800000, 27000000>>

Codes == {"26Q1W21", "26Q1W22"}

\* A content hash is its first 8 characters followed by the rest.
NoHash == <<>>                      \* the row's hash column is NULL

\* Rows the IDE may append: hash, source length (0: source is NULL),
\* conversationId, requestId, fileName (path segments; <<>>: NULL).  The first two hashes differ and share their
\* first 8 characters.
RowInputs ==
  { [hash |-> <<"aaaaaaaa", "01">>, sourceLength |-> 401, conversationId |-> "c1", requestId |-> "q1",
     fileName |-> <<"zhong", "src", "App.jsx">>],
    [hash |-> <<"aaaaaaaa", "02">>, sourceLength |-> 401, conversationId |-> "",   requestId |-> "",
     fileName |-> <<>>],
    [hash |-> <<"bbbbbbbb", "03">>, sourceLength |-> 0,   conversationId |-> "c1", requestId |-> "q1",
     fileName |-> <<"zhong", "src", "App.jsx">>],
    [hash |-> NoHash,               sourceLength |-> 401, conversationId |-> "c1", requestId |-> "q1",
     fileName |-> <<>>] }

ManualAmounts == {5000}             \* argv[2] of add-tokens-to-session.js
LoggedTokens  == {1500}             \* usage.tokensUsed
RandomTags    == <<"r1", "r2", "r3", "r4">>

NoId   == 0                         \* no session id (null / file absent)
NoEntryId == <<>>                   \* metadata.entryId of an imported entry: undefined
NoTime == -1                        \* endTime: null
NoProjectId == -1                   \* projectId: null
Undefined   == -2                   \* an option the caller does not give

\* Operating-system processes running a command on the file tier at the same time
Procs == {1, 2}

\* A process that has not started; sessions is its copy of the session file
Idle == [pc |-> "idle", act |-> NoId, sessions |-> <<>>, id |-> NoId]

\* Project lists, as wholes: the built-in list, a local edit, another device's list
Payloads   == {"initialProjects", "edited", "other"}
NoProjects == "absent"              \* localStorage.getItem('zhong_projects') === null
NoVersion  == 0                     \* the stamp '0' of `|| '0'`
\* How a call to the remote store goes
Failures   == {"none", "offline", "unauthenticated", "read", "write"}

\* Remote storage object 'projects': { projects, _version }, or nothing stored
NoDoc == [stored |-> FALSE, projects |-> NoProjects, version |-> NoVersion]
\* Remote storage object of one project code in zhong_session_analytics
NoAnalytics == [stored |-> FALSE, sessionCount |-> 0, totalTokens |-> 0, totalPrompts |-> 0]

\* useState(() => saved ? JSON.parse(saved) : initialProjects) on empty storage
InitialStore ==
  [ projectsData           |-> "initialProjects",
    dirty                  |-> FALSE,
    zhong_projects         |-> NoProjects,
    zhong_projects_version |-> NoVersion,
    remote                 |-> NoDoc,
    analytics              |-> [c \in Codes |-> NoAnalytics] ]

----------------------------------------------------------------------------
VARIABLES
  clock,      \* index into Instants: Date.now()
  rows,       \* external activity source (ai_code_hashes), in insertion order
  sessions,   \* tier -> sequence of session records
  activeId,   \* tier -> active-session pointer
  history,    \* tier -> Entry Store entries
  pending,    \* tier -> deferred addTokenEntryToSession calls of logTokenUsage
  counters,   \* ids / tags handed out so far, and command runs
  result,     \* what the last operation returned
  store,      \* project list: React state, localStorage copy and stamp, remote store
  older,      \* tier -> number of entries the persisted Entry Store holds in
              \* front of history[tier]: logged before the run, outside any session
  procs       \* process -> position and local copies of a command that runs concurrently

vars == <<clock, rows, sessions, activeId, history, pending, counters, result, store, older, procs>>

now == Instants[clock]

----------------------------------------------------------------------------
(* Arithmetic and sequence helpers *)

Max(a, b) == IF a >= b THEN a ELSE b

\* Math.ceil(a / b) for a >= 0, b > 0
CeilDiv(a, b) == (a + b - 1) \div b

\* Math.round(a / b) for a >= 0, b > 0 (halves round up)
RoundDiv(a, b) == (2 * a + b) \div (2 * b)

RECURSIVE SumSeq(_)
SumSeq(s) == IF s = <<>> THEN 0 ELSE Head(s) + SumSeq(Tail(s))

RECURSIVE MaxSeq(_, _)
MaxSeq(s, floor) == IF s = <<>> THEN floor ELSE MaxSeq(Tail(s), Max(Head(s), floor))

Includes(s, x) == \E i \in 1..Len(s) : s[i] = x

\* Array.prototype.findIndex; 0 stands for -1
FindIndex(s, P(_)) ==
  IF \E i \in 1..Len(s) : P(s[i])
  THEN CHOOSE i \in 1..Len(s) : P(s[i]) /\ \A j \in 1..(i - 1) : ~P(s[j])
  ELSE 0

\* Array.from(new Set(s)): first occurrences, in order
RECURSIVE Dedup(_)
Dedup(s) ==
  IF s = <<>> THEN <<>>
  ELSE LET front == Dedup(SubSeq(s, 1, Len(s) - 1))
           last  == s[Len(s)]
       IN IF Includes(front, last) THEN front ELSE Append(front, last)

----------------------------------------------------------------------------
(* Session records (class Session, session-manager.js) *)

Described(text) == [text |-> text, hours |-> 0]

\* Variant: the hours are rounded up
AutoDescription_Ceil(inactiveMs) ==
  [text |-> "Auto-ended after N hours of inactivity", hours |-> CeilDiv(inactiveMs, HOUR_MS)]

\* `Auto-ended after ${Math.round(inactiveMs / (60 * 60 * 1000))} hours of inactivity`
AutoDescription(inactiveMs) ==
  [text |-> "Auto-ended after N hours of inactivity", hours |-> RoundDiv(inactiveMs, HOUR_MS)]

\* new Session({...options}).toJSON(): promptGroups is not a field of a new record
Session(id, startTime, code, description) ==
  [ id              |-> id,
    startTime       |-> startTime,
    endTime         |-> NoTime,
    projectId       |-> NoProjectId,
    projectCode     |-> code,
    description     |-> description,
    conversationId  |-> "",
    tokenEntries    |-> <<>>,
    totalTokens     |-> 0,
    activities      |-> <<>>,
    hasPromptGroups |-> FALSE,
    promptGroups    |-> <<>> ]

IsActive(s) == s.endTime = NoTime

IndexOfSession(ss, id) == FindIndex(ss, LAMBDA s : s.id = id)

ActiveSessions(ss) == {i \in 1..Len(ss) : IsActive(ss[i])}

----------------------------------------------------------------------------
(* Entry Store (cursor-token-tracker.js) *)

\* Variant: data.entries.slice(0, MAX_ENTRIES), the oldest are kept
SaveHistory_KeepsOldest(n, entries) ==
  IF n + Len(entries) > MAX_ENTRIES
  THEN IF n >= MAX_ENTRIES
       THEN [older |-> MAX_ENTRIES, entries |-> <<>>]
       ELSE [older |-> n, entries |-> SubSeq(entries, 1, MAX_ENTRIES - n)]
  ELSE [older |-> n, entries |-> entries]

\* saveHistory: data.entries.slice(-MAX_ENTRIES), where data.entries is n
\* older entries followed by entries
SaveHistory(n, entries) ==
  LET drop == n + Len(entries) - MAX_ENTRIES
  IN IF drop <= 0 THEN [older |-> n, entries |-> entries]
     ELSE IF drop <= n THEN [older |-> n - drop, entries |-> entries]
     ELSE [older |-> 0, entries |-> SubSeq(entries, drop - n + 1, Len(entries))]

\* tokenHistory.entries.find(e => e.metadata?.entryId === entryId)
FindEntry(hist, entryId) == FindIndex(hist, LAMBDA e : e.entryId = entryId)

----------------------------------------------------------------------------
(* Token-total reconciliation rule and timeout sweep (session-manager.js) *)

\* session.tokenEntries.map(find).filter(Boolean).reduce(sum of tokensUsed)
SessionTokens(s, hist) ==
  SumSeq([i \in 1..Len(s.tokenEntries) |->
            LET k == FindEntry(hist, s.tokenEntries[i])
            IN IF k = 0 THEN 0 ELSE hist[k].tokensUsed])

\* Variant: a positive sum is adopted whatever the stored total is
FinalTokens_Always(s, hist) ==
  IF SessionTokens(s, hist) > 0 THEN SessionTokens(s, hist) ELSE s.totalTokens

\* if (!session.totalTokens) { ... if (sessionTokens > 0) session.totalTokens = sessionTokens }
FinalTokens(s, hist) ==
  IF s.totalTokens = 0 /\ SessionTokens(s, hist) > 0
  THEN SessionTokens(s, hist)
  ELSE s.totalTokens

getLastActivityTime(s, hist) ==
  LET afterActivities ==
        MaxSeq([i \in 1..Len(s.activities) |-> s.activities[i].timestamp], s.startTime)
      entryTimes ==
        {hist[k].timestamp : k \in {j \in 1..Len(hist) : Includes(s.tokenEntries, hist[j].entryId)}}
  IN IF entryTimes = {} THEN afterActivities
     ELSE Max(afterActivities, CHOOSE t \in entryTimes : \A u \in entryTimes : u <= t)

\* Variant: sessions that already ended are examined again
TimedOut_IgnoresEndTime(s, hist, t) ==
  t - getLastActivityTime(s, hist) >= SESSION_TIMEOUT_MS

TimedOut(s, hist, t) ==
  IsActive(s) /\ t - getLastActivityTime(s, hist) >= SESSION_TIMEOUT_MS

AutoEnd(s, hist, t) ==
  [s EXCEPT !.totalTokens = FinalTokens(s, hist),
            !.endTime     = t,
            !.description = IF s.description.text # "" THEN s.description
                            ELSE AutoDescription(t - getLastActivityTime(s, hist))]

\* Variant: the pointer is cleared whenever the sweep ended a session
checkAndEndTimedOutSessions_ClearsPointer(ss, act, hist, t) ==
  LET hit == {i \in 1..Len(ss) : TimedOut(ss[i], hist, t)}
  IN [ sessions |-> [i \in 1..Len(ss) |-> IF i \in hit THEN AutoEnd(ss[i], hist, t) ELSE ss[i]],
       activeId |-> IF hit # {} THEN NoId ELSE act,
       ended    |-> {ss[i].id : i \in hit} ]

\* The stores after checkAndEndTimedOutSessions, and the ids it returns
checkAndEndTimedOutSessions(ss, act, hist, t) ==
  LET hit == {i \in 1..Len(ss) : TimedOut(ss[i], hist, t)}
  IN [ sessions |-> [i \in 1..Len(ss) |-> IF i \in hit THEN AutoEnd(ss[i], hist, t) ELSE ss[i]],
       activeId |-> IF \E i \in hit : ss[i].id = act THEN NoId ELSE act,
       ended    |-> {ss[i].id : i \in hit} ]

Swept(tier) ==
  checkAndEndTimedOutSessions(sessions[tier], activeId[tier], history[tier], now)

----------------------------------------------------------------------------
(* Initial state: empty stores, no pointer, empty external source *)

\* value is the list or record an operation returned, for those that return one
Returned(op, ret, sid) ==
  [op |-> op, ret |-> ret, sid |-> sid, streak |-> 0, value |-> <<>>]

\* counters.steps is the number of steps the run may still take; backlog is
\* the number of entries each tier's Entry Store already holds
StartedFrom(allowance, backlog, first) ==
  /\ clock    = 1
  /\ rows     = <<>>
  /\ sessions = [t \in Tiers |-> <<>>]
  /\ activeId = [t \in Tiers |-> NoId]
  /\ history  = [t \in Tiers |-> <<>>]
  /\ pending  = [t \in Tiers |-> <<>>]
  /\ counters = [sessions |-> 0, logs |-> 0, manual |-> 0, steps |-> allowance]
  /\ result   = first
  /\ store    = InitialStore
  /\ older    = backlog
  /\ procs    = [p \in Procs |-> Idle]

Started(allowance, backlog) ==
  StartedFrom(allowance, backlog, Returned("init", "void", NoId))

Fresh(allowance) == Started(allowance, [t \in Tiers |-> 0])

Init == Fresh(MaxSteps)

\* One more step of the run is taken
Budget == counters.steps > 0

Spent(c) == [c EXCEPT !.steps = @ - 1]

\* Time passes
Tick ==
  /\ Budget
  /\ clock < MaxClock
  /\ clock' = clock + 1
  /\ counters' = Spent(counters)
  /\ UNCHANGED <<procs, older, store, rows, sessions, activeId, history, pending, result>>

----------------------------------------------------------------------------
(* Session manager operations, as pure steps on one tier's stores *)

StartDescriptions == {""}
EndDescriptions   == {""}
ActivityTypes     == {"code-edit"}

\* startSession after its sweep found no active session: push, save, point
CreateSession(ss, id, t, code, text) ==
  [ sessions |-> Append(ss, Session(id, t, code, Described(text))),
    activeId |-> id,
    ret      |-> "created",
    sid      |-> id ]

\* startSession(options): sweep, return the active session if any, else create
startSession(ss, act, hist, t, id, code, text) ==
  LET sw     == checkAndEndTimedOutSessions(ss, act, hist, t)
      k      == IndexOfSession(sw.sessions, sw.activeId)
  IN IF sw.activeId # NoId /\ k # 0 /\ IsActive(sw.sessions[k])
     THEN [sessions |-> sw.sessions, activeId |-> sw.activeId,
           ret |-> "existing", sid |-> sw.activeId]
     ELSE CreateSession(sw.sessions, id, t, code, text)

\* endSession(options)
endSession(ss, act, hist, t, text) ==
  LET k == IndexOfSession(ss, act)
  IN IF act = NoId
     THEN [sessions |-> ss, activeId |-> act, ret |-> "null", sid |-> NoId]
     ELSE IF k = 0
     THEN [sessions |-> ss, activeId |-> NoId, ret |-> "null", sid |-> NoId]
     ELSE IF ~IsActive(ss[k])
     THEN [sessions |-> ss, activeId |-> NoId, ret |-> "alreadyEnded", sid |-> act]
     ELSE LET described == IF text # "" THEN [ss[k] EXCEPT !.description = Described(text)]
                           ELSE ss[k]
              closed    == [described EXCEPT !.totalTokens = FinalTokens(described, hist),
                                             !.endTime     = t]
          IN [sessions |-> [ss EXCEPT ![k] = closed], activeId |-> NoId,
              ret |-> "ended", sid |-> act]

\* Variant: the stores are read without the sweep
getActiveSession_NoSweep(ss, act, hist, t) ==
  LET k == FindIndex(ss, LAMBDA s : s.id = act /\ IsActive(s))
  IN [sessions |-> ss, activeId |-> act,
      ret |-> IF act = NoId \/ k = 0 THEN "null" ELSE "session",
      sid |-> IF act = NoId \/ k = 0 THEN NoId ELSE act]

\* getActiveSession(): sweep, then the pointer's session if it is still open
getActiveSession(ss, act, hist, t) ==
  LET sw == checkAndEndTimedOutSessions(ss, act, hist, t)
      k  == FindIndex(sw.sessions, LAMBDA s : s.id = sw.activeId /\ IsActive(s))
  IN [sessions |-> sw.sessions, activeId |-> sw.activeId,
      ret |-> IF sw.activeId = NoId \/ k = 0 THEN "null" ELSE "session",
      sid |-> IF sw.activeId = NoId \/ k = 0 THEN NoId ELSE sw.activeId]

\* Variant: the entry is appended whether or not the session has ended
addTokenEntryToSession_NoEndCheck(ss, act, hist, t, sid, entryId) ==
  LET sw == checkAndEndTimedOutSessions(ss, act, hist, t)
      k  == IndexOfSession(sw.sessions, sid)
  IN IF k = 0
     THEN [sessions |-> sw.sessions, activeId |-> sw.activeId, ret |-> "false", sid |-> sid]
     ELSE [sessions |->
             IF Includes(sw.sessions[k].tokenEntries, entryId) THEN sw.sessions
             ELSE [sw.sessions EXCEPT ![k].tokenEntries = Append(@, entryId)],
           activeId |-> sw.activeId, ret |-> "true", sid |-> sid]

\* addTokenEntryToSession(sessionId, entryId)
addTokenEntryToSession(ss, act, hist, t, sid, entryId) ==
  LET sw == checkAndEndTimedOutSessions(ss, act, hist, t)
      k  == IndexOfSession(sw.sessions, sid)
  IN IF k = 0 \/ ~IsActive(sw.sessions[k])
     THEN [sessions |-> sw.sessions, activeId |-> sw.activeId, ret |-> "false", sid |-> sid]
     ELSE [sessions |->
             IF Includes(sw.sessions[k].tokenEntries, entryId) THEN sw.sessions
             ELSE [sw.sessions EXCEPT ![k].tokenEntries = Append(@, entryId)],
           activeId |-> sw.activeId, ret |-> "true", sid |-> sid]

\* addActivityToSession(sessionId, activity)
addActivityToSession(ss, act, hist, t, sid, type) ==
  LET sw == checkAndEndTimedOutSessions(ss, act, hist, t)
      k  == IndexOfSession(sw.sessions, sid)
  IN IF k = 0 \/ ~IsActive(sw.sessions[k])
     THEN [sessions |-> sw.sessions, activeId |-> sw.activeId, ret |-> "false", sid |-> sid]
     ELSE [sessions |-> [sw.sessions EXCEPT ![k].activities =
                            Append(@, [timestamp |-> t, type |-> type])],
           activeId |-> sw.activeId, ret |-> "true", sid |-> sid]

\* The tier's stores take the outcome of an operation
Commit(tier, op, out) ==
  /\ sessions' = [sessions EXCEPT ![tier] = out.sessions]
  /\ activeId' = [activeId EXCEPT ![tier] = out.activeId]
  /\ result'   = Returned(op, out.ret, out.sid)

----------------------------------------------------------------------------
(* Session manager actions *)

StartSession(tier, code, text) ==
  /\ Budget
  /\ Commit(tier, "startSession",
            startSession(sessions[tier], activeId[tier], history[tier], now,
                         counters.sessions + 1, code, text))
  /\ result'.ret = "created" => counters.sessions < MaxSessions
  /\ counters' = IF result'.ret = "created"
                 THEN Spent([counters EXCEPT !.sessions = @ + 1]) ELSE Spent(counters)
  /\ UNCHANGED <<procs, older, store, clock, rows, history, pending>>

EndSession(tier, text) ==
  /\ Budget
  /\ Commit(tier, "endSession",
            endSession(sessions[tier], activeId[tier], history[tier], now, text))
  /\ UNCHANGED <<procs, older, store, clock, rows, history, pending>>
  /\ counters' = Spent(counters)

CheckAndEndTimedOutSessions(tier) ==
  /\ Budget
  /\ sessions' = [sessions EXCEPT ![tier] = Swept(tier).sessions]
  /\ activeId' = [activeId EXCEPT ![tier] = Swept(tier).activeId]
  /\ result'   = Returned("sweep", IF Swept(tier).ended = {} THEN "none" ELSE "ended", NoId)
  /\ UNCHANGED <<procs, older, store, clock, rows, history, pending>>
  /\ counters' = Spent(counters)

GetActiveSession(tier) ==
  /\ Budget
  /\ Commit(tier, "getActiveSession",
            getActiveSession(sessions[tier], activeId[tier], history[tier], now))
  /\ UNCHANGED <<procs, older, store, clock, rows, history, pending>>
  /\ counters' = Spent(counters)

AddTokenEntryToSession(tier, sid, entryId) ==
  /\ Budget
  /\ Commit(tier, "addTokenEntryToSession",
            addTokenEntryToSession(sessions[tier], activeId[tier], history[tier], now,
                                   sid, entryId))
  /\ UNCHANGED <<procs, older, store, clock, rows, history, pending>>
  /\ counters' = Spent(counters)

AddActivityToSession(tier, sid, type) ==
  /\ Budget
  /\ \A i \in 1..Len(sessions[tier]) :
       sessions[tier][i].id = sid => Len(sessions[tier][i].activities) < MaxActs
  /\ Commit(tier, "addActivityToSession",
            addActivityToSession(sessions[tier], activeId[tier], history[tier], now,
                                 sid, type))
  /\ UNCHANGED <<procs, older, store, clock, rows, history, pending>>
  /\ counters' = Spent(counters)

----------------------------------------------------------------------------
(* Entry Store actions (cursor-token-tracker.js) *)

\* `entry_${Date.now()}_${Math.random().toString(36).substr(2, 9)}`
LoggedEntryId(t, n) == <<"entry", t, RandomTags[n]>>

\* logTokenUsage(usage): append, save, and defer the association with the
\* session the pointer names
LogTokenUsage(tier, tokens) ==
  /\ Budget
  /\ counters.logs < MaxLogs
  /\ LET entryId == LoggedEntryId(now, counters.logs + 1)
         entry   == [entryId    |-> entryId,
                     timestamp  |-> now,
                     tokensUsed |-> tokens,
                     operation  |-> "unknown",
                     project    |-> "unknown",
                     hash       |-> NoHash,
                     conversationId |-> "",
                     sessionId  |-> activeId[tier]]
         saved   == SaveHistory(older[tier], Append(history[tier], entry))
     IN /\ history' = [history EXCEPT ![tier] = saved.entries]
        /\ older'   = [older EXCEPT ![tier] = saved.older]
        /\ pending' = IF activeId[tier] = NoId THEN pending
                      ELSE [pending EXCEPT ![tier] =
                              Append(@, [sid |-> activeId[tier], entryId |-> entryId])]
        /\ result'  = Returned("logTokenUsage", "entry", activeId[tier])
  /\ counters' = Spent([counters EXCEPT !.logs = @ + 1])
  /\ UNCHANGED <<procs, store, clock, rows, sessions, activeId>>

\* The deferred Promise.resolve().then(...) of logTokenUsage runs
Associate(tier) ==
  /\ Budget
  /\ pending[tier] # <<>>
  /\ Commit(tier, "addTokenEntryToSession",
            addTokenEntryToSession(sessions[tier], activeId[tier], history[tier], now,
                                   Head(pending[tier]).sid, Head(pending[tier]).entryId))
  /\ pending' = [pending EXCEPT ![tier] = Tail(@)]
  /\ UNCHANGED <<procs, older, store, clock, rows, history>>
  /\ counters' = Spent(counters)

----------------------------------------------------------------------------
(* External activity source: ai_code_hashes of the IDE's tracking database *)

\* The IDE appends a row, created now; the table is keyed by the hash
AppendRow(input) ==
  /\ Budget
  /\ Len(rows) < MaxRows
  /\ \A i \in 1..Len(rows) : rows[i].hash = NoHash \/ rows[i].hash # input.hash
  /\ rows' = Append(rows, [hash           |-> input.hash,
                           sourceLength   |-> input.sourceLength,
                           createdAt      |-> now,
                           conversationId |-> input.conversationId,
                           requestId      |-> input.requestId,
                           fileName       |-> input.fileName])
  /\ result' = Returned("appendRow", "void", NoId)
  /\ counters' = Spent(counters)
  /\ UNCHANGED <<procs, older, store, clock, sessions, activeId, history, pending>>

\* SELECT hash, model, fileName, fileExtension, source, createdAt, conversationId
\* FROM ai_code_hashes WHERE createdAt >= ? ORDER BY createdAt ASC
\* (requestId is not selected: row.requestId is undefined, "" here)
SelectSince(source, since) ==
  LET hit == SelectSeq(source, LAMBDA r : r.createdAt >= since)
  IN [i \in 1..Len(hit) |-> [hit[i] EXCEPT !.requestId = ""]]

\* `entry_${row.createdAt}_${row.hash.substring(0, 8)}`
DerivedEntryId(row) == <<"entry", row.createdAt, row.hash[1]>>

\* Math.ceil(codeLength / 4)
EstimatedTokens(row) == CeilDiv(row.sourceLength, CHARS_PER_TOKEN)

\* Variant: the fallback key is the hour of the row
PromptKey_ByHour(row) ==
  IF row.conversationId # "" /\ row.requestId # ""
  THEN <<"conv", row.conversationId, row.requestId>>
  ELSE <<"prompt", row.createdAt \div HOUR_MS>>

\* conversationId_requestId, or `prompt_${Math.floor(row.createdAt / 60000)}`
PromptKey(row) ==
  IF row.conversationId # "" /\ row.requestId # ""
  THEN <<"conv", row.conversationId, row.requestId>>
  ELSE <<"prompt", row.createdAt \div MINUTE_MS>>

\* row.hash.substring throws a TypeError on a NULL hash
Throws(fetched) == \E i \in 1..Len(fetched) : fetched[i].hash = NoHash

----------------------------------------------------------------------------
(* Entry Store import and query (cursor-token-tracker.js) *)

KnownProjects == {"TimeBox", "three-circa", "circaevum", "zhong", "yin", "yang"}

\* extractProjectFromPath(filePath): the four patterns in turn, then the
\* first directory name
extractProjectFromPath(path) ==
  LET before(name, last) ==
        {i \in 1..(Len(path) - 1) :
           path[i + 1] = name /\ (last \/ i + 1 < Len(path))}
      known  == {i \in 1..(Len(path) - 1) : path[i] \in KnownProjects}
      first(S) == path[CHOOSE i \in S : \A j \in S : i <= j]
  IN IF path = <<>> THEN "unknown"
     ELSE IF known # {} THEN first(known)
     ELSE IF before("Assets", FALSE) # {} THEN first(before("Assets", FALSE))
     ELSE IF before("src", FALSE) # {} THEN first(before("src", FALSE))
     ELSE IF before("package.json", TRUE) # {} THEN first(before("package.json", TRUE))
     ELSE IF Len(path) > 1 THEN path[1] ELSE "unknown"

\* The entry syncFromCursorDatabase builds from a row
ImportedEntry(row, estimateTokens) ==
  [entryId    |-> NoEntryId,
   timestamp  |-> row.createdAt,
   tokensUsed |-> IF estimateTokens THEN EstimatedTokens(row) ELSE 0,
   operation  |-> "code-generation",
   project    |-> extractProjectFromPath(row.fileName),
   hash       |-> row.hash,
   conversationId |-> row.conversationId,
   sessionId  |-> NoId]

\* syncFromCursorDatabase(options) in Node: the rows whose hash is not among
\* the hashes the store held before the loop are pushed, then saveHistory
syncFromCursorDatabase(n, entries, source, estimateTokens, available) ==
  LET existingHashes == {entries[i].hash : i \in 1..Len(entries)} \ {NoHash}
      fresh == SelectSeq(source, LAMBDA r : r.hash \notin existingHashes)
      saved == SaveHistory(n, entries \o [i \in 1..Len(fresh) |->
                                            ImportedEntry(fresh[i], estimateTokens)])
  IN IF ~available
     THEN [older |-> n, entries |-> entries, ret |-> "database_not_found"]
     ELSE [older |-> saved.older, entries |-> saved.entries, ret |-> "success"]

SyncFromCursorDatabase(estimateTokens, available) ==
  /\ Budget
  /\ LET out == syncFromCursorDatabase(older["file"], history["file"], rows,
                                       estimateTokens, available)
     IN /\ history' = [history EXCEPT !["file"] = out.entries]
        /\ older'   = [older EXCEPT !["file"] = out.older]
        /\ result'  = Returned("syncFromCursorDatabase", out.ret, NoId)
  /\ counters' = Spent(counters)
  /\ UNCHANGED <<procs, store, clock, rows, sessions, activeId, pending>>

\* options of getTokenHistory: NoTime and "" stand for an option not given
QueryOptions ==
  [startDate : {NoTime, Instants[2]}, endDate : {NoTime, Instants[2]},
   project : {"", "zhong"}, operation : {"", "code-generation"}]

\* getTokenHistory(options).entries: the four filters, in the store's order
getTokenHistory(entries, options) ==
  SelectSeq(entries, LAMBDA e :
    /\ options.startDate = NoTime \/ e.timestamp >= options.startDate
    /\ options.endDate = NoTime \/ e.timestamp <= options.endDate
    /\ options.project = "" \/ e.project = options.project
    /\ options.operation = "" \/ e.operation = options.operation)

GetTokenHistory(options) ==
  /\ Budget
  /\ older["file"] = 0
  /\ result' = [Returned("getTokenHistory", "history", NoId) EXCEPT
                  !.value = getTokenHistory(history["file"], options)]
  /\ counters' = Spent(counters)
  /\ UNCHANGED <<procs, older, store, clock, rows, sessions, activeId, history, pending>>

----------------------------------------------------------------------------
(* Reconciler: scripts/sync-tokens-to-session.js *)

\* Variant: no row of the batch is skipped
NewRows_NoSkip(fetched, existing) == fetched

\* The rows of the batch whose derived id is not among the ids the session
\* held before the pass (existingIds is built once, before the loop)
NewRows(fetched, existing) ==
  SelectSeq(fetched, LAMBDA r : ~Includes(existing, DerivedEntryId(r)))

\* The active session after the rows.forEach loop and the three updates
ReconciledSession(s, fetched) ==
  LET fresh == NewRows(fetched, s.tokenEntries)
  IN [s EXCEPT
        !.tokenEntries    = @ \o [i \in 1..Len(fresh) |-> DerivedEntryId(fresh[i])],
        !.totalTokens     = @ + SumSeq([i \in 1..Len(fresh) |-> EstimatedTokens(fresh[i])]),
        !.hasPromptGroups = TRUE,
        !.promptGroups    = Dedup(@ \o [i \in 1..Len(fresh) |-> PromptKey(fresh[i])])]

\* Variant: without an open session under the pointer the newest record is taken
syncTokensToSession_NewestSession(ss, act, hist, t, source, available) ==
  LET sw == checkAndEndTimedOutSessions(ss, act, hist, t)
      k0 == FindIndex(sw.sessions, LAMBDA s : s.id = sw.activeId /\ IsActive(s))
      k  == IF sw.activeId # NoId /\ k0 # 0 THEN k0 ELSE Len(sw.sessions)
      fetched == SelectSince(source, sw.sessions[k].startTime)
      stop(why) == [sessions |-> sw.sessions, activeId |-> sw.activeId,
                    ret |-> why, sid |-> sw.activeId]
  IN IF k = 0                       THEN stop("noActiveSession")
     ELSE IF ~available             THEN stop("sourceUnavailable")
     ELSE IF Len(fetched) = 0       THEN stop("noRows")
     ELSE IF Throws(fetched)        THEN stop("typeError")
     ELSE [sessions |-> [sw.sessions EXCEPT ![k] = ReconciledSession(@, fetched)],
           activeId |-> sw.activeId, ret |-> "synced", sid |-> sw.sessions[k].id]

\* Variant: the rows are taken whether or not the source could be opened
syncTokensToSession_IgnoresAvailability(ss, act, hist, t, source, available) ==
  LET sw == checkAndEndTimedOutSessions(ss, act, hist, t)
      k  == FindIndex(sw.sessions, LAMBDA s : s.id = sw.activeId /\ IsActive(s))
      fetched == SelectSince(source, sw.sessions[k].startTime)
      stop(why) == [sessions |-> sw.sessions, activeId |-> sw.activeId,
                    ret |-> why, sid |-> sw.activeId]
  IN IF sw.activeId = NoId \/ k = 0 THEN stop("noActiveSession")
     ELSE IF Len(fetched) = 0       THEN stop("noRows")
     ELSE IF Throws(fetched)        THEN stop("typeError")
     ELSE [sessions |-> [sw.sessions EXCEPT ![k] = ReconciledSession(@, fetched)],
           activeId |-> sw.activeId, ret |-> "synced", sid |-> sw.activeId]

\* main(): sweep, find the active session, query, update, write back
syncTokensToSession(ss, act, hist, t, source, available) ==
  LET sw == checkAndEndTimedOutSessions(ss, act, hist, t)
      k  == FindIndex(sw.sessions, LAMBDA s : s.id = sw.activeId /\ IsActive(s))
      fetched == SelectSince(source, sw.sessions[k].startTime)
      stop(why) == [sessions |-> sw.sessions, activeId |-> sw.activeId,
                    ret |-> why, sid |-> sw.activeId]
  IN IF sw.activeId = NoId \/ k = 0 THEN stop("noActiveSession")
     ELSE IF ~available             THEN stop("sourceUnavailable")
     ELSE IF Len(fetched) = 0       THEN stop("noRows")
     ELSE IF Throws(fetched)        THEN stop("typeError")
     ELSE [sessions |-> [sw.sessions EXCEPT ![k] = ReconciledSession(@, fetched)],
           activeId |-> sw.activeId, ret |-> "synced", sid |-> sw.activeId]

Completed(r) == r.op = "syncTokens" /\ r.ret \in {"synced", "noRows"}

\* One run of the command.  result.streak counts the completed passes made in
\* succession for the same session against the same source (capped at 2).
SyncTokensToSession(available) ==
  Budget /\
  LET out == syncTokensToSession(sessions["file"], activeId["file"], history["file"],
                                 now, rows, available)
      ret == Returned("syncTokens", out.ret, out.sid)
  IN /\ sessions' = [sessions EXCEPT !["file"] = out.sessions]
     /\ activeId' = [activeId EXCEPT !["file"] = out.activeId]
     /\ result'   = [ret EXCEPT !.streak =
                       IF ~Completed(ret) THEN 0
                       ELSE IF Completed(result) /\ result.sid = out.sid THEN 2
                       ELSE 1]
     /\ counters' = Spent(counters)
     /\ UNCHANGED <<procs, older, store, clock, rows, history, pending>>

----------------------------------------------------------------------------
(* scripts/recalculate-all-session-tokens.js *)

RecalculatedSession(s, source) ==
  LET sessionEntries == SelectSince(source, s.startTime)
  IN IF Len(sessionEntries) = 0 THEN s
     ELSE [s EXCEPT
             !.totalTokens  = SumSeq([i \in 1..Len(sessionEntries) |->
                                        EstimatedTokens(sessionEntries[i])]),
             !.tokenEntries = Dedup([i \in 1..Len(sessionEntries) |->
                                        DerivedEntryId(sessionEntries[i])])]

recalculateAll(ss, source, available) ==
  IF Len(ss) = 0 THEN [sessions |-> ss, ret |-> "noSessions"]
  ELSE IF ~available THEN [sessions |-> ss, ret |-> "sourceUnavailable"]
  ELSE IF \E i \in 1..Len(ss) : Throws(SelectSince(source, ss[i].startTime))
  THEN [sessions |-> ss, ret |-> "typeError"]
  ELSE [sessions |-> [i \in 1..Len(ss) |-> RecalculatedSession(ss[i], source)],
        ret |-> "recalculated"]

RecalculateAll(available) ==
  Budget /\
  LET out == recalculateAll(sessions["file"], rows, available)
  IN /\ sessions' = [sessions EXCEPT !["file"] = out.sessions]
     /\ result'   = Returned("recalculateAll", out.ret, NoId)
     /\ counters' = Spent(counters)
     /\ UNCHANGED <<procs, older, store, clock, rows, activeId, history, pending>>

----------------------------------------------------------------------------
(* scripts/add-tokens-to-session.js *)

\* `entry_estimated_${Date.now()}`; successive runs of the command read
\* distinct milliseconds
EstimatedEntryId(t, run) == <<"entry_estimated", t + run>>

addTokensToSession(ss, act, entryId, amount) ==
  LET k == IndexOfSession(ss, act)
  IN IF act = NoId \/ k = 0 THEN [sessions |-> ss, ret |-> "noActiveSession"]
     ELSE [sessions |-> [ss EXCEPT ![k].totalTokens  = @ + amount,
                                   ![k].tokenEntries = Append(@, entryId)],
           ret |-> "added"]

AddTokensToSession(amount) ==
  /\ Budget
  /\ counters.manual < MaxManual
  /\ LET out == addTokensToSession(sessions["file"], activeId["file"],
                                   EstimatedEntryId(now, counters.manual), amount)
     IN /\ sessions' = [sessions EXCEPT !["file"] = out.sessions]
        /\ result'   = Returned("addTokens", out.ret, activeId["file"])
  /\ counters' = Spent([counters EXCEPT !.manual = @ + 1])
  /\ UNCHANGED <<procs, older, store, clock, rows, activeId, history, pending>>

----------------------------------------------------------------------------
(* scripts/start-session.js *)

\* Variant: the active session is not ended before the start
startSessionCommand_NoEnd(ss, act, hist, t, id, code) ==
  LET got == getActiveSession(ss, act, hist, t)
  IN startSession(got.sessions, got.activeId, hist, t, id, code, "Session for code")

\* getActiveSession(); if (active) endSession(); startSession({...})
startSessionCommand(ss, act, hist, t, id, code) ==
  LET got   == getActiveSession(ss, act, hist, t)
      ended == IF got.ret = "session"
               THEN endSession(got.sessions, got.activeId, hist, t, "")
               ELSE got
  IN startSession(ended.sessions, ended.activeId, hist, t, id, code, "Session for code")

StartSessionCommand(code) ==
  /\ Budget
  /\ Commit("file", "startSessionCommand",
            startSessionCommand(sessions["file"], activeId["file"], history["file"], now,
                                counters.sessions + 1, code))
  /\ result'.ret = "created" => counters.sessions < MaxSessions
  /\ counters' = IF result'.ret = "created"
                 THEN Spent([counters EXCEPT !.sessions = @ + 1]) ELSE Spent(counters)
  /\ UNCHANGED <<procs, older, store, clock, rows, history, pending>>

----------------------------------------------------------------------------
(* Sync Bridge, file tier -> browser cache: syncSessionsFromFileSystem *)

\* Variant: a cached record is replaced only when a change was detected
MergedSessions_KeepCached(fileSessions, cached) ==
  LET updated == [i \in 1..Len(cached) |->
                    LET k == IndexOfSession(fileSessions, cached[i].id)
                    IN IF /\ k # 0
                          /\ \/ fileSessions[k].totalTokens # cached[i].totalTokens
                             \/ Len(fileSessions[k].tokenEntries) # Len(cached[i].tokenEntries)
                             \/ fileSessions[k].endTime # cached[i].endTime
                       THEN fileSessions[k] ELSE cached[i]]
      new     == SelectSeq(fileSessions, LAMBDA s : IndexOfSession(cached, s.id) = 0)
  IN updated \o new

\* existingSessions.map(existing => updated ?? existing) ++ newSessions
MergedSessions(fileSessions, cached) ==
  LET updated == [i \in 1..Len(cached) |->
                    LET k == IndexOfSession(fileSessions, cached[i].id)
                    IN IF k # 0 THEN fileSessions[k] ELSE cached[i]]
      new     == SelectSeq(fileSessions, LAMBDA s : IndexOfSession(cached, s.id) = 0)
  IN updated \o new

\* Variant: the cache becomes a copy of the file tier's sessions
SyncSessionsFromFileSystem_Replace(reachable) ==
  /\ Budget
  /\ IF reachable /\ Len(sessions["file"]) > 0
     THEN /\ sessions' = [sessions EXCEPT !["cache"] = sessions["file"]]
          /\ activeId' = IF activeId["file"] # NoId
                         THEN [activeId EXCEPT !["cache"] = activeId["file"]]
                         ELSE activeId
     ELSE UNCHANGED <<sessions, activeId>>
  /\ result' = Returned("syncSessionsFromFileSystem",
                        IF reachable /\ Len(sessions["file"]) > 0 THEN "merged" ELSE "skipped",
                        NoId)
  /\ UNCHANGED <<procs, older, store, clock, rows, history, pending>>
  /\ counters' = Spent(counters)

\* reachable: GET /api/sessions answered with response.ok
SyncSessionsFromFileSystem(reachable) ==
  /\ Budget
  /\ IF reachable /\ Len(sessions["file"]) > 0
     THEN /\ sessions' = [sessions EXCEPT
                            !["cache"] = MergedSessions(sessions["file"], sessions["cache"])]
          /\ activeId' = IF activeId["file"] # NoId
                         THEN [activeId EXCEPT !["cache"] = activeId["file"]]
                         ELSE activeId
     ELSE UNCHANGED <<sessions, activeId>>
  /\ result' = Returned("syncSessionsFromFileSystem",
                        IF reachable /\ Len(sessions["file"]) > 0 THEN "merged" ELSE "skipped",
                        NoId)
  /\ UNCHANGED <<procs, older, store, clock, rows, history, pending>>
  /\ counters' = Spent(counters)

----------------------------------------------------------------------------
(* Sync Bridge, browser <-> remote store: NakamaService and its callers *)

\* Date.now().toString(): stamps are equally long digit strings, ordered as
\* the instants they were taken at; every stamp taken is above '0'
DateNow == clock

\* loadProjects(): null offline or with nothing stored; otherwise data.projects,
\* the bare array, which carries no _version (version is what
\* `remoteProjects._version || remoteProjects._synced || '0'` then reads)
loadProjects(doc, failure) ==
  IF failure = "offline"
  THEN [threw |-> FALSE, found |-> FALSE, projects |-> NoProjects, version |-> NoVersion]
  ELSE IF failure \in {"unauthenticated", "read"}
  THEN [threw |-> TRUE, found |-> FALSE, projects |-> NoProjects, version |-> NoVersion]
  ELSE IF doc.stored
  THEN [threw |-> FALSE, found |-> TRUE, projects |-> doc.projects, version |-> NoVersion]
  ELSE [threw |-> FALSE, found |-> FALSE, projects |-> NoProjects, version |-> NoVersion]

\* saveProjects({ projects, _version }): true without writing offline
saveProjects(doc, projects, version, failure) ==
  IF failure = "offline"
  THEN [threw |-> FALSE, remote |-> doc]
  ELSE IF failure \in {"unauthenticated", "write"}
  THEN [threw |-> TRUE, remote |-> doc]
  ELSE [threw |-> FALSE,
        remote |-> [stored |-> TRUE, projects |-> projects, version |-> version]]

\* Variant: the local stamp is written before the remote write is awaited
syncProjects_StampFirst(s, t, failure) ==
  LET loaded == loadProjects(s.remote, failure)
      saved  == saveProjects(s.remote, s.projectsData, t, failure)
      failed == [store |-> s, ret |-> s.projectsData, outcome |-> "failed"]
  IN IF loaded.threw THEN failed
     ELSE IF ~loaded.found
     THEN IF saved.threw THEN failed
          ELSE [store |-> [s EXCEPT !.remote = saved.remote], ret |-> s.projectsData,
                outcome |-> IF failure = "offline" THEN "local" ELSE "pushed"]
     ELSE IF loaded.version > s.zhong_projects_version
     THEN [store |-> [s EXCEPT !.zhong_projects = loaded.projects,
                               !.zhong_projects_version = loaded.version],
           ret |-> loaded.projects, outcome |-> "pulled"]
     ELSE IF saved.threw
     THEN [store |-> [s EXCEPT !.zhong_projects_version = t],
           ret |-> s.projectsData, outcome |-> "failed"]
     ELSE [store |-> [s EXCEPT !.remote = saved.remote, !.zhong_projects_version = t],
           ret |-> s.projectsData, outcome |-> "pushed"]

\* syncProjects(localProjects): s.projectsData is localProjects, t is Date.now()
syncProjects(s, t, failure) ==
  LET loaded == loadProjects(s.remote, failure)
      saved  == saveProjects(s.remote, s.projectsData, t, failure)
      failed == [store |-> s, ret |-> s.projectsData, outcome |-> "failed"]
  IN IF loaded.threw THEN failed
     ELSE IF ~loaded.found
     THEN IF saved.threw THEN failed
          ELSE [store |-> [s EXCEPT !.remote = saved.remote], ret |-> s.projectsData,
                outcome |-> IF failure = "offline" THEN "local" ELSE "pushed"]
     ELSE IF loaded.version > s.zhong_projects_version
     THEN [store |-> [s EXCEPT !.zhong_projects = loaded.projects,
                               !.zhong_projects_version = loaded.version],
           ret |-> loaded.projects, outcome |-> "pulled"]
     ELSE IF saved.threw THEN failed
     ELSE [store |-> [s EXCEPT !.remote = saved.remote, !.zhong_projects_version = t],
           ret |-> s.projectsData, outcome |-> "pushed"]

\* The steps of the browser with the remote store leave the sessions alone
Remote(op, ret) ==
  /\ Budget
  /\ result' = Returned(op, ret, NoId)
  /\ counters' = Spent(counters)
  /\ UNCHANGED <<procs, older, clock, rows, sessions, activeId, history, pending>>

\* syncFromNakama: syncProjects(projectsData), then setProjectsData(synced);
\* a list other than the one held schedules the persist effect
SyncProjects(failure) ==
  LET out == syncProjects(store, DateNow, failure)
  IN /\ Remote("syncProjects", out.outcome)
     /\ store' = [out.store EXCEPT !.projectsData = out.ret,
                                   !.dirty = @ \/ out.ret # store.projectsData]

\* The user edits the project list: setProjectsData schedules the persist effect
EditProjects ==
  /\ store.projectsData # "edited"
  /\ Remote("editProjects", "void")
  /\ store' = [store EXCEPT !.projectsData = "edited", !.dirty = TRUE]

\* The persist effect: when email-authenticated, saveProjects(projectsData)
\* with its rejection caught, and the localStorage copy with a new stamp
PersistEffect(emailAuthenticated, failure) ==
  /\ store.dirty
  /\ Remote("persistEffect", IF emailAuthenticated THEN "saved" ELSE "void")
  /\ store' = IF emailAuthenticated
              THEN [store EXCEPT
                      !.dirty = FALSE,
                      !.remote = saveProjects(@, store.projectsData, DateNow, failure).remote,
                      !.zhong_projects = store.projectsData,
                      !.zhong_projects_version = DateNow]
              ELSE [store EXCEPT !.dirty = FALSE]

\* Another device of the same user persists its project list
OtherDeviceSaves ==
  /\ Remote("otherDevice", "void")
  /\ store' = [store EXCEPT
                 !.remote = saveProjects(@, "other", DateNow, "none").remote]

\* sessionCount, totalTokens and totalPrompts of the cached sessions of one
\* project code; a session counts its stored promptGroups, or 1 for its entries
AnalyticsPayload(code) ==
  LET list == SelectSeq(sessions["cache"], LAMBDA s : s.projectCode = code)
  IN [stored       |-> TRUE,
      sessionCount |-> Len(list),
      totalTokens  |-> SumSeq([i \in 1..Len(list) |-> list[i].totalTokens]),
      totalPrompts |-> SumSeq([i \in 1..Len(list) |->
                                 IF list[i].hasPromptGroups THEN Len(list[i].promptGroups)
                                 ELSE IF Len(list[i].tokenEntries) > 0 THEN 1 ELSE 0])]

\* saveSessionAnalytics(projectCode, payload): false instead of any failure
SaveSessionAnalytics(code, failure) ==
  /\ Remote("saveSessionAnalytics",
            IF failure \in {"none", "read"} THEN "true" ELSE "false")
  /\ store' = IF failure \in {"none", "read"}
              THEN [store EXCEPT !.analytics[code] = AnalyticsPayload(code)]
              ELSE store

\* loadSessionAnalytics(projectCode): null instead of any failure
LoadSessionAnalytics(code, failure) ==
  /\ Remote("loadSessionAnalytics",
            IF failure \in {"none", "write"} /\ store.analytics[code].stored
            THEN "analytics" ELSE "null")
  /\ UNCHANGED store

----------------------------------------------------------------------------
(* Aggregator: getSessions and loadSessionData of SessionStats.jsx *)

\* new Session(s): promptGroups is not one of the fields the constructor
\* copies, and projectId is `data.projectId || null`
NewSession(s) ==
  [s EXCEPT !.hasPromptGroups = FALSE, !.promptGroups = <<>>,
            !.projectId = IF @ = 0 THEN NoProjectId ELSE @]

\* sessions.sort((a, b) => new Date(b.startTime) - new Date(a.startTime))
RECURSIVE NewestFirst(_)
NewestFirst(ss) ==
  IF ss = <<>> THEN <<>>
  ELSE LET m == CHOOSE i \in 1..Len(ss) :
                  /\ \A j \in 1..Len(ss) : ss[j].startTime <= ss[i].startTime
                  /\ \A j \in 1..(i - 1) : ss[j].startTime < ss[i].startTime
       IN <<ss[m]>> \o NewestFirst(SubSeq(ss, 1, m - 1) \o SubSeq(ss, m + 1, Len(ss)))

\* The options of getSessions; "" stands for a projectCode that is not given
SessionFilters ==
  [projectId : {Undefined, 0, 1}, projectCode : {"", "26Q1W21"},
   startDate : {NoTime, Instants[2]}, endDate : {NoTime, Instants[2]}, activeOnly : BOOLEAN]

\* getSessions(options)
getSessions(stored, options) ==
  NewestFirst(SelectSeq([i \in 1..Len(stored) |-> NewSession(stored[i])],
                        LAMBDA s :
                          /\ options.projectId = Undefined \/ s.projectId = options.projectId
                          /\ options.projectCode = "" \/ s.projectCode = options.projectCode
                          /\ options.startDate = NoTime \/ s.startTime >= options.startDate
                          /\ options.endDate = NoTime \/ s.startTime <= options.endDate
                          /\ ~options.activeOnly \/ IsActive(s)))

GetSessions(tier, options) ==
  /\ Budget
  /\ result' = [Returned("getSessions", "list", NoId) EXCEPT
                  !.value = [options |-> options, sessions |-> getSessions(sessions[tier], options)]]
  /\ counters' = Spent(counters)
  /\ UNCHANGED <<procs, older, store, clock, rows, sessions, activeId, history, pending>>

\* associateSessionWithProject(sessionId, projectId, projectName)
AssociateSessionWithProject(tier, sid, projectId) ==
  /\ Budget
  /\ LET k == IndexOfSession(sessions[tier], sid)
     IN /\ sessions' = IF k = 0 THEN sessions
                       ELSE [sessions EXCEPT ![tier][k].projectId = projectId]
        /\ result' = Returned("associateSessionWithProject",
                              IF k = 0 THEN "false" ELSE "true", sid)
  /\ counters' = Spent(counters)
  /\ UNCHANGED <<procs, older, store, clock, rows, activeId, history, pending>>

\* entryId.match(/entry_(?:estimated_)?(\d+)/): the digits, NoTime without a match
EmbeddedTimestamp(entryId) ==
  IF entryId[1] \in {"entry", "entry_estimated"} THEN entryId[2] ELSE NoTime

\* The minute keys Math.floor(parseInt(digits, 10) / 60000) of the ids that match
MinuteGroups(entries) ==
  {EmbeddedTimestamp(entries[e]) \div MINUTE_MS :
     e \in {x \in 1..Len(entries) : EmbeddedTimestamp(entries[x]) # NoTime}}

\* What one session of the list adds to totalPrompts
PromptsOf(session) ==
  IF session.hasPromptGroups THEN Len(session.promptGroups)
  ELSE IF Len(session.tokenEntries) > 0
  THEN Max(Cardinality(MinuteGroups(session.tokenEntries)), 1)
  ELSE 0

\* loadSessionData() for a project code; remote: what loadSessionAnalytics
\* would answer.  The sessions of a remote answer carry neither promptGroups
\* nor tokenEntries.
loadSessionData(stored, code, remote) ==
  LET projectSessions == getSessions(stored, [projectId |-> Undefined, projectCode |-> code,
                                                  startDate |-> NoTime, endDate |-> NoTime,
                                                  activeOnly |-> FALSE])
      localTokens     == SumSeq([i \in 1..Len(projectSessions) |->
                                   projectSessions[i].totalTokens])
      useRemote == /\ \/ Len(projectSessions) = 0
                      \/ (localTokens = 0 /\ Len(projectSessions) = 0)
                   /\ remote.stored
                   /\ (remote.sessionCount > 0 \/ remote.totalTokens > 0)
  IN [code         |-> code,
      remote       |-> useRemote,
      totalTokens  |-> IF useRemote THEN remote.totalTokens ELSE localTokens,
      totalPrompts |-> IF useRemote THEN remote.totalPrompts
                       ELSE SumSeq([i \in 1..Len(projectSessions) |->
                                      PromptsOf(projectSessions[i])])]

\* The component loads its data; the remote store is asked only by an
\* authenticated, online client
LoadSessionData(code, failure) ==
  /\ Budget
  /\ result' = [Returned("loadSessionData", "stats", NoId) EXCEPT
                  !.value = loadSessionData(sessions["cache"], code,
                                            IF failure \in {"none", "write"}
                                            THEN store.analytics[code] ELSE NoAnalytics)]
  /\ counters' = Spent(counters)
  /\ UNCHANGED <<procs, older, store, clock, rows, sessions, activeId, history, pending>>

----------------------------------------------------------------------------
(* Project identifiers: generateProjectId and parseProjectId.  A string is
   the sequence of its characters. *)

Digits == <<"0", "1", "2", "3", "4", "5", "6", "7", "8", "9">>

UpperCaseLetters ==
  {"A", "B", "C", "D", "E", "F", "G", "H", "I", "J", "K", "L", "M",
   "N", "O", "P", "Q", "R", "S", "T", "U", "V", "W", "X", "Y", "Z"}

IsDigit(c) == \E d \in 1..10 : Digits[d] = c

DigitValue(c) == (CHOOSE d \in 1..10 : Digits[d] = c) - 1

\* n.toString() / String(n) for an integer n >= 0
RECURSIVE NumberToString(_)
NumberToString(n) ==
  IF n < 10 THEN <<Digits[n + 1]>>
  ELSE Append(NumberToString(n \div 10), Digits[(n % 10) + 1])

\* parseInt(s) for a string of digits
RECURSIVE ParseInt(_)
ParseInt(s) ==
  IF s = <<>> THEN 0
  ELSE 10 * ParseInt(SubSeq(s, 1, Len(s) - 1)) + DigitValue(s[Len(s)])

\* s.slice(-k)
SliceLast(s, k) == IF Len(s) <= k THEN s ELSE SubSeq(s, Len(s) - k + 1, Len(s))

\* s.padStart(k, '0')
PadStart(s, k) == IF Len(s) >= k THEN s ELSE [i \in 1..(k - Len(s)) |-> "0"] \o s

\* type.toUpperCase(), for the type names the callers pass
ToUpperCase(type) == IF type = "web" THEN "WEB" ELSE type

PLATFORM_CODES == [WEB |-> "W", DATABASE |-> "D", API |-> "A", ZHONG |-> "Z", UNITY |-> "U"]

\* PLATFORM_CODES[type?.toUpperCase()] || 'X'
getPlatformCode(type) ==
  IF ToUpperCase(type) \in DOMAIN PLATFORM_CODES THEN PLATFORM_CODES[ToUpperCase(type)] ELSE "X"

\* Variant: the project number is not padded to two digits
generateProjectId_NoPad(date, type, projectNumber) ==
  SliceLast(NumberToString(date.fullYear), 2) \o <<"Q">> \o NumberToString((date.month \div 3) + 1)
    \o <<getPlatformCode(type)>> \o NumberToString(projectNumber)

\* `${year}Q${quarter}${platformCode}${paddedNumber}`; date.month is getMonth(), 0..11
generateProjectId(date, type, projectNumber) ==
  LET year         == SliceLast(NumberToString(date.fullYear), 2)
      quarter      == (date.month \div 3) + 1
      platformCode == getPlatformCode(type)
      paddedNumber == PadStart(NumberToString(projectNumber), 2)
  IN year \o <<"Q">> \o NumberToString(quarter) \o <<platformCode>> \o paddedNumber

\* parseProjectId answers null
NoParse == [matched |-> FALSE]

codeToPrimaryName == [W |-> "WEB", D |-> "DATABASE", A |-> "API", U |-> "UNITY", Z |-> "ZHONG"]

\* /^(\d{2})Q(\d)([A-Z])(\d{2})$/, then the four components and the platform
\* type looked up from the code
parseProjectId(projectId) ==
  IF ~(/\ Len(projectId) = 7
       /\ IsDigit(projectId[1]) /\ IsDigit(projectId[2])
       /\ projectId[3] = "Q"
       /\ IsDigit(projectId[4])
       /\ projectId[5] \in UpperCaseLetters
       /\ IsDigit(projectId[6]) /\ IsDigit(projectId[7]))
  THEN NoParse
  ELSE LET platformCode == projectId[5]
       IN [matched       |-> TRUE,
           year          |-> ParseInt(<<"2", "0">> \o SubSeq(projectId, 1, 2)),
           quarter       |-> ParseInt(SubSeq(projectId, 4, 4)),
           platformCode  |-> platformCode,
           platformType  |-> IF platformCode \in DOMAIN codeToPrimaryName
                             THEN codeToPrimaryName[platformCode]
                             ELSE IF \E t \in DOMAIN PLATFORM_CODES : PLATFORM_CODES[t] = platformCode
                             THEN CHOOSE t \in DOMAIN PLATFORM_CODES : PLATFORM_CODES[t] = platformCode
                             ELSE "UNKNOWN",
           projectNumber |-> ParseInt(SubSeq(projectId, 6, 7))]

\* The arguments a caller passes to generateProjectId
ProjectYears   == 1999..2100
ProjectMonths  == 0..11
ProjectTypes   == {"WEB", "DATABASE", "API", "UNITY", "ZHONG", "web", "YANG"}
ProjectNumbers == 0..100

ProjectInputs ==
  [date : [fullYear : ProjectYears, month : ProjectMonths],
   type : ProjectTypes, projectNumber : ProjectNumbers]

GenerateProjectId ==
  /\ result.op = "projectInput"
  /\ result' = [result EXCEPT
                  !.op = "generateProjectId",
                  !.value = [input     |-> result.value,
                             projectId |-> generateProjectId(result.value.date, result.value.type,
                                                             result.value.projectNumber)]]
  /\ UNCHANGED <<procs, older, store, clock, rows, sessions, activeId, history, pending, counters>>

ParseProjectId ==
  /\ result.op = "generateProjectId"
  /\ result' = [result EXCEPT
                  !.op = "parseProjectId",
                  !.value = [input     |-> result.value.input,
                             projectId |-> result.value.projectId,
                             parsed    |-> parseProjectId(result.value.projectId)]]
  /\ UNCHANGED <<procs, older, store, clock, rows, sessions, activeId, history, pending, counters>>

----------------------------------------------------------------------------
(* startSession on the file tier, file access by file access: what one
   process reads and writes between the accesses of another *)

\* checkAndEndTimedOutSessions()
StartSessionSweep(p) ==
  /\ procs[p].pc = "idle"
  /\ sessions' = [sessions EXCEPT !["file"] = Swept("file").sessions]
  /\ activeId' = [activeId EXCEPT !["file"] = Swept("file").activeId]
  /\ procs' = [procs EXCEPT ![p].pc = "swept"]
  /\ UNCHANGED <<older, store, clock, rows, history, pending, counters, result>>

\* const activeId = getActiveSessionId()
StartSessionReadPointer(p) ==
  /\ procs[p].pc = "swept"
  /\ procs' = [procs EXCEPT ![p].act = activeId["file"],
                            ![p].pc  = IF activeId["file"] = NoId THEN "create" ELSE "find"]
  /\ UNCHANGED <<older, store, clock, rows, sessions, activeId, history, pending, counters, result>>

\* loadSessions().find(s => s.id === activeId): returned when it has no endTime
StartSessionFindActive(p) ==
  /\ procs[p].pc = "find"
  /\ LET k == IndexOfSession(sessions["file"], procs[p].act)
     IN procs' = [procs EXCEPT ![p].pc = IF k # 0 /\ IsActive(sessions["file"][k])
                                        THEN "done" ELSE "create"]
  /\ UNCHANGED <<older, store, clock, rows, sessions, activeId, history, pending, counters, result>>

\* new Session({...}); const sessions = loadSessions(); sessions.push(session.toJSON())
StartSessionLoad(p, code) ==
  /\ procs[p].pc = "create"
  /\ counters.sessions < MaxSessions
  /\ procs' = [procs EXCEPT
                 ![p].id       = counters.sessions + 1,
                 ![p].sessions = Append(sessions["file"],
                                        Session(counters.sessions + 1, now, code, Described(""))),
                 ![p].pc       = "save"]
  /\ counters' = [counters EXCEPT !.sessions = @ + 1]
  /\ UNCHANGED <<older, store, clock, rows, sessions, activeId, history, pending, result>>

\* saveSessions(sessions)
StartSessionSave(p) ==
  /\ procs[p].pc = "save"
  /\ sessions' = [sessions EXCEPT !["file"] = procs[p].sessions]
  /\ procs' = [procs EXCEPT ![p].pc = "point"]
  /\ UNCHANGED <<older, store, clock, rows, activeId, history, pending, counters, result>>

\* setActiveSessionId(session.id)
StartSessionSetPointer(p) ==
  /\ procs[p].pc = "point"
  /\ activeId' = [activeId EXCEPT !["file"] = procs[p].id]
  /\ procs' = [procs EXCEPT ![p].pc = "done"]
  /\ UNCHANGED <<older, store, clock, rows, sessions, history, pending, counters, result>>

----------------------------------------------------------------------------
(* sync-tokens-to-session.js next to other processes: its reads of the two
   files, then, in the callback of the query, its write of the session file *)

\* main() up to the query: sweep, read the pointer and the session file, find
\* the active session, look for the database
ReconcilerRead(p, available) ==
  /\ procs[p].pc = "idle"
  /\ LET sw == Swept("file")
         k  == FindIndex(sw.sessions, LAMBDA s : s.id = sw.activeId /\ IsActive(s))
     IN /\ sessions' = [sessions EXCEPT !["file"] = sw.sessions]
        /\ activeId' = [activeId EXCEPT !["file"] = sw.activeId]
        /\ procs' = [procs EXCEPT
                       ![p].act      = sw.activeId,
                       ![p].sessions = sw.sessions,
                       ![p].pc       = IF sw.activeId = NoId \/ k = 0 \/ ~available
                                       THEN "done" ELSE "query"]
  /\ UNCHANGED <<older, store, clock, rows, history, pending, counters, result>>

\* The callback of db.all: the rows update the copy read before, and the whole
\* copy is written to the session file
ReconcilerWrite(p) ==
  /\ procs[p].pc = "query"
  /\ LET mine    == procs[p].sessions
         k       == FindIndex(mine, LAMBDA s : s.id = procs[p].act /\ IsActive(s))
         fetched == SelectSince(rows, mine[k].startTime)
     IN sessions' = IF Len(fetched) = 0 \/ Throws(fetched) THEN sessions
                    ELSE [sessions EXCEPT !["file"] = [mine EXCEPT ![k] = ReconciledSession(@, fetched)]]
  /\ procs' = [procs EXCEPT ![p].pc = "done"]
  /\ UNCHANGED <<older, store, clock, rows, activeId, history, pending, counters, result>>

----------------------------------------------------------------------------
(* The system *)

SessionIds == 1..MaxSessions

EntryIdsKnown(tier) == {history[tier][i].entryId : i \in 1..Len(history[tier])}

\* A caller associates an entry of the tier's Entry Store with a session
AddTokenEntryCall(tier, sid) ==
  \E entryId \in EntryIdsKnown(tier) : AddTokenEntryToSession(tier, sid, entryId)

Next ==
  \/ Tick
  \/ \E tier \in Tiers, code \in Codes, text \in StartDescriptions :
       StartSession(tier, code, text)
  \/ \E tier \in Tiers, text \in EndDescriptions : EndSession(tier, text)
  \/ \E tier \in Tiers : CheckAndEndTimedOutSessions(tier)
  \/ \E tier \in Tiers : GetActiveSession(tier)
  \/ \E tier \in Tiers, sid \in SessionIds : AddTokenEntryCall(tier, sid)
  \/ \E tier \in Tiers, sid \in SessionIds, type \in ActivityTypes :
       AddActivityToSession(tier, sid, type)
  \/ \E tier \in Tiers, tokens \in LoggedTokens : LogTokenUsage(tier, tokens)
  \/ \E tier \in Tiers : Associate(tier)
  \/ \E input \in RowInputs : AppendRow(input)
  \/ \E available \in BOOLEAN : SyncTokensToSession(available)
  \/ \E available \in BOOLEAN : RecalculateAll(available)
  \/ \E amount \in ManualAmounts : AddTokensToSession(amount)
  \/ \E code \in Codes : StartSessionCommand(code)
  \/ \E reachable \in BOOLEAN : SyncSessionsFromFileSystem(reachable)

Spec == Init /\ [][Next]_vars

\* The session lifecycle alone, on both tiers and across the Sync Bridge
InitLifecycle == Fresh(MaxLifecycleSteps)

NextLifecycle ==
  \/ Tick
  \/ \E tier \in Tiers, code \in Codes, text \in StartDescriptions :
       StartSession(tier, code, text)
  \/ \E tier \in Tiers, text \in EndDescriptions : EndSession(tier, text)
  \/ \E tier \in Tiers : CheckAndEndTimedOutSessions(tier)
  \/ \E tier \in Tiers : GetActiveSession(tier)
  \/ \E tier \in Tiers, sid \in SessionIds, type \in ActivityTypes :
       AddActivityToSession(tier, sid, type)
  \/ \E code \in Codes : StartSessionCommand(code)
  \/ \E reachable \in BOOLEAN : SyncSessionsFromFileSystem(reachable)

SpecLifecycle == InitLifecycle /\ [][NextLifecycle]_vars

\* The file tier's token accounting alone: the command-line scripts
InitAccounting == Fresh(MaxAccountingSteps)

NextAccounting ==
  \/ Tick
  \/ \E code \in Codes, text \in StartDescriptions : StartSession("file", code, text)
  \/ \E text \in EndDescriptions : EndSession("file", text)
  \/ \E input \in RowInputs : AppendRow(input)
  \/ \E available \in BOOLEAN : SyncTokensToSession(available)
  \/ \E available \in BOOLEAN : RecalculateAll(available)
  \/ \E amount \in ManualAmounts : AddTokensToSession(amount)

SpecAccounting == InitAccounting /\ [][NextAccounting]_vars

\* The sessions of each tier with the tier's Entry Store alone
InitEntries == Fresh(MaxEntrySteps)

NextEntries ==
  \/ Tick
  \/ \E tier \in Tiers, code \in Codes, text \in StartDescriptions :
       StartSession(tier, code, text)
  \/ \E tier \in Tiers, text \in EndDescriptions : EndSession(tier, text)
  \/ \E tier \in Tiers : CheckAndEndTimedOutSessions(tier)
  \/ \E tier \in Tiers, sid \in SessionIds : AddTokenEntryCall(tier, sid)
  \/ \E tier \in Tiers, tokens \in LoggedTokens : LogTokenUsage(tier, tokens)
  \/ \E tier \in Tiers : Associate(tier)
  \/ \E amount \in ManualAmounts : AddTokensToSession(amount)

SpecEntries == InitEntries /\ [][NextEntries]_vars

\* The two tiers' sessions and the merge from the file tier into the cache alone
InitMerge == Fresh(MaxMergeSteps)

NextMerge ==
  \/ Tick
  \/ \E tier \in Tiers, code \in Codes, text \in StartDescriptions :
       StartSession(tier, code, text)
  \/ \E tier \in Tiers, text \in EndDescriptions : EndSession(tier, text)
  \/ \E tier \in Tiers, sid \in SessionIds, type \in ActivityTypes :
       AddActivityToSession(tier, sid, type)
  \/ \E reachable \in BOOLEAN : SyncSessionsFromFileSystem(reachable)

SpecMerge == InitMerge /\ [][NextMerge]_vars

\* The file tier's Entry Store alone, empty or full when the run starts
Backlogs == {0, MAX_ENTRIES}

InitStore == \E n \in Backlogs : Started(MaxStoreSteps, [file |-> n, cache |-> 0])

NextStore ==
  \/ Tick
  \/ \E input \in RowInputs : AppendRow(input)
  \/ \E tokens \in LoggedTokens : LogTokenUsage("file", tokens)
  \/ \E estimateTokens, available \in BOOLEAN :
       SyncFromCursorDatabase(estimateTokens, available)
  \/ \E options \in QueryOptions : GetTokenHistory(options)

SpecStore == InitStore /\ [][NextStore]_vars

\* The command-line scripts, the merge into the cache and the Aggregator
InitStats == Fresh(MaxStatsSteps)

NextStats ==
  \/ Tick
  \/ \E code \in Codes, text \in StartDescriptions : StartSession("file", code, text)
  \/ \E input \in RowInputs : AppendRow(input)
  \/ \E available \in BOOLEAN : SyncTokensToSession(available)
  \/ \E available \in BOOLEAN : RecalculateAll(available)
  \/ \E amount \in ManualAmounts : AddTokensToSession(amount)
  \/ \E reachable \in BOOLEAN : SyncSessionsFromFileSystem(reachable)
  \/ \E code \in Codes, failure \in Failures : LoadSessionData(code, failure)

SpecStats == InitStats /\ [][NextStats]_vars

\* A project identifier generated from a caller's arguments and parsed back
InitProjectId ==
  \E input \in ProjectInputs :
    StartedFrom(0, [t \in Tiers |-> 0],
                [Returned("projectInput", "void", NoId) EXCEPT !.value = input])

NextProjectId == GenerateProjectId \/ ParseProjectId

SpecProjectId == InitProjectId /\ [][NextProjectId]_vars

\* The file tier's sessions fed by the Reconciler alone, and their cached copies
InitReconciler == Fresh(MaxReconcilerSteps)

NextReconciler ==
  \/ Tick
  \/ \E code \in Codes, text \in StartDescriptions : StartSession("file", code, text)
  \/ \E text \in EndDescriptions : EndSession("file", text)
  \/ \E input \in RowInputs : AppendRow(input)
  \/ \E available \in BOOLEAN : SyncTokensToSession(available)
  \/ \E reachable \in BOOLEAN : SyncSessionsFromFileSystem(reachable)

SpecReconciler == InitReconciler /\ [][NextReconciler]_vars

\* The browser's sessions, their association with a project and their listing
InitQuery == Fresh(MaxQuerySteps)

NextQuery ==
  \/ Tick
  \/ \E code \in Codes, text \in StartDescriptions : StartSession("cache", code, text)
  \/ \E text \in EndDescriptions : EndSession("cache", text)
  \/ \E sid \in SessionIds, projectId \in {0, 1} :
       AssociateSessionWithProject("cache", sid, projectId)
  \/ \E options \in SessionFilters : GetSessions("cache", options)

SpecQuery == InitQuery /\ [][NextQuery]_vars

\* Two processes run startSession on the empty file tier while time passes
InitStartRace == Fresh(MaxRaceTicks)

NextStartRace ==
  \/ Tick
  \/ \E p \in Procs : StartSessionSweep(p)
  \/ \E p \in Procs : StartSessionReadPointer(p)
  \/ \E p \in Procs : StartSessionFindActive(p)
  \/ \E p \in Procs, code \in Codes : StartSessionLoad(p, code)
  \/ \E p \in Procs : StartSessionSave(p)
  \/ \E p \in Procs : StartSessionSetPointer(p)

SpecStartRace == InitStartRace /\ [][NextStartRace]_vars

\* sync-tokens-to-session.js runs while other processes use the file tier
InitReconcilerRace == Fresh(MaxReconcilerRaceSteps)

NextReconcilerRace ==
  \/ Tick
  \/ \E code \in Codes, text \in StartDescriptions : StartSession("file", code, text)
  \/ \E text \in EndDescriptions : EndSession("file", text)
  \/ CheckAndEndTimedOutSessions("file")
  \/ \E input \in RowInputs : AppendRow(input)
  \/ \E p \in Procs, available \in BOOLEAN : ReconcilerRead(p, available)
  \/ \E p \in Procs : ReconcilerWrite(p)

SpecReconcilerRace == InitReconcilerRace /\ [][NextReconcilerRace]_vars

\* The browser with the file tier's endpoint and the remote store
InitRemote == Fresh(MaxRemoteSteps)

NextRemote ==
  \/ Tick
  \/ \E tier \in Tiers, code \in Codes, text \in StartDescriptions :
       StartSession(tier, code, text)
  \/ \E reachable \in BOOLEAN : SyncSessionsFromFileSystem(reachable)
  \/ \E failure \in Failures : SyncProjects(failure)
  \/ EditProjects
  \/ \E emailAuthenticated \in BOOLEAN, failure \in Failures :
       PersistEffect(emailAuthenticated, failure)
  \/ OtherDeviceSaves
  \/ \E code \in Codes, failure \in Failures : SaveSessionAnalytics(code, failure)
  \/ \E code \in Codes, failure \in Failures : LoadSessionAnalytics(code, failure)

SpecRemote == InitRemote /\ [][NextRemote]_vars

----------------------------------------------------------------------------
(* Properties *)

\* The step is an operation, not the passing of time: result' is what it returned
Stepped == counters'.steps # counters.steps /\ clock' = clock

\* C1: a Reconciler pass that completes right after a completed pass for the
\* same active session, with no row appended to the external source in
\* between, leaves that session's totalTokens, the size of its tokenEntries
\* and its promptGroups as the first pass left them.
C1_IdempotentReconciliation ==
  [][(Stepped /\ result'.streak = 2) =>
       LET k == IndexOfSession(sessions["file"], result'.sid)
       IN /\ k # 0
          /\ sessions'["file"][k].totalTokens = sessions["file"][k].totalTokens
          /\ Len(sessions'["file"][k].tokenEntries) = Len(sessions["file"][k].tokenEntries)
          /\ sessions'["file"][k].promptGroups = sessions["file"][k].promptGroups
          /\ sessions'["file"][k].hasPromptGroups = sessions["file"][k].hasPromptGroups]_vars

\* C1 witness: a second pass in succession has run on a session that holds
\* reconciled entries
C1_Witness ==
  /\ result.streak = 2
  /\ result.ret = "synced"
  /\ \E i \in 1..Len(sessions["file"]) :
       /\ sessions["file"][i].id = result.sid
       /\ sessions["file"][i].tokenEntries # <<>>
       /\ sessions["file"][i].totalTokens > 0
       /\ sessions["file"][i].promptGroups # <<>>

\* C2: a Reconciler pass that found an active session and an available source
\* sets the session's totalTokens to its previous value plus the sum of
\* ceil(sourceLength / 4) over exactly the fetched rows whose derived entry
\* id was not already in tokenEntries, and appends exactly those ids.
C2_AdditiveTotals ==
  [][(Stepped /\ result'.op = "syncTokens"
        /\ result'.ret \notin {"noActiveSession", "sourceUnavailable"}) =>
       LET k   == IndexOfSession(sessions["file"], result'.sid)
           s   == sessions["file"][k]
           new == SelectSeq(rows, LAMBDA r :
                    /\ r.createdAt >= s.startTime
                    /\ r.hash # NoHash
                    /\ ~Includes(s.tokenEntries, <<"entry", r.createdAt, r.hash[1]>>))
       IN /\ sessions'["file"][k].totalTokens =
               s.totalTokens + SumSeq([i \in 1..Len(new) |-> CeilDiv(new[i].sourceLength, 4)])
          /\ sessions'["file"][k].tokenEntries =
               s.tokenEntries \o
                 [i \in 1..Len(new) |-> <<"entry", new[i].createdAt, new[i].hash[1]>>]]_vars

\* C3 as stated: every startSession leaves the session it was asked to start
\* as the tier's only active session, any session active before being ended.
C3_StartEndsPrevious ==
  [][\A tier \in Tiers, code \in Codes, text \in StartDescriptions :
       StartSession(tier, code, text) =>
         LET ss == sessions'[tier]
         IN /\ Len(ss) > 0
            /\ ActiveSessions(ss) = {Len(ss)}
            /\ ss[Len(ss)].id = counters.sessions + 1
            /\ activeId'[tier] = counters.sessions + 1]_vars

\* C3 amended: the start-session command (getActiveSession, endSession if a
\* session is active, startSession) always creates the requested session;
\* afterwards it is the file tier's only active session, the pointer names
\* it, and every session that was there before has a non-null endTime.
C3_StartCommandEndsPrevious ==
  [][(Stepped /\ result'.op = "startSessionCommand") =>
       LET ss == sessions'["file"]
       IN /\ result'.ret = "created"
          /\ Len(ss) = Len(sessions["file"]) + 1
          /\ ActiveSessions(ss) = {Len(ss)}
          /\ activeId'["file"] = ss[Len(ss)].id
          /\ result'.sid = ss[Len(ss)].id
          /\ \A i \in 1..Len(sessions["file"]) : ss[i].endTime # NoTime]_vars

\* C3 witness: two steps into a run, the command has started B while A was
\* active; A is ended at that instant and B is active
C3_Witness ==
  /\ counters.steps = MaxLifecycleSteps - 2
  /\ result.op = "startSessionCommand"
  /\ Len(sessions["file"]) = 2
  /\ sessions["file"][1].projectCode # sessions["file"][2].projectCode
  /\ sessions["file"][1].endTime = sessions["file"][2].startTime
  /\ IsActive(sessions["file"][2])
  /\ activeId["file"] = sessions["file"][2].id

\* C4: startSession called while the pointer names an active session that
\* has not timed out returns that session and leaves the tier's session
\* store and pointer unchanged.
C4_StartWhileActive ==
  [][\A tier \in Tiers, code \in Codes, text \in StartDescriptions :
       LET k == IndexOfSession(sessions[tier], activeId[tier])
       IN (/\ activeId[tier] # NoId
           /\ k # 0
           /\ IsActive(sessions[tier][k])
           /\ now - getLastActivityTime(sessions[tier][k], history[tier]) < SESSION_TIMEOUT_MS
           /\ StartSession(tier, code, text))
          => /\ result'.ret = "existing"
             /\ result'.sid = activeId[tier]
             /\ sessions'[tier] = sessions[tier]
             /\ activeId'[tier] = activeId[tier]]_vars

\* C5: in each tier at most one session record has endTime == null.
C5_AtMostOneActive ==
  \A tier \in Tiers : Cardinality(ActiveSessions(sessions[tier])) <= 1

\* C6: addTokenEntryToSession (called directly or as the deferred step of
\* logTokenUsage) and addActivityToSession, given the id of a session of the
\* tier whose endTime is non-null, return false and leave that session's
\* tokenEntries and activities as they were.
C6_EndedSessionRejects ==
  [][\A tier \in Tiers, sid \in SessionIds :
       LET k == IndexOfSession(sessions[tier], sid)
       IN (/\ k # 0
           /\ ~IsActive(sessions[tier][k])
           /\ \/ AddTokenEntryCall(tier, sid)
              \/ \E type \in ActivityTypes : AddActivityToSession(tier, sid, type)
              \/ (Associate(tier) /\ Head(pending[tier]).sid = sid))
          => /\ result'.ret = "false"
             /\ sessions'[tier][k].tokenEntries = sessions[tier][k].tokenEntries
             /\ sessions'[tier][k].activities = sessions[tier][k].activities]_vars

\* C6 witness: addTokenEntryToSession has just refused an entry of the Entry
\* Store for a session that had been ended
C6_Witness ==
  /\ result.op = "addTokenEntryToSession"
  /\ result.ret = "false"
  /\ \E tier \in Tiers :
       /\ history[tier] # <<>>
       /\ \E i \in 1..Len(sessions[tier]) :
            /\ sessions[tier][i].id = result.sid
            /\ ~IsActive(sessions[tier][i])
            /\ sessions[tier][i].tokenEntries = <<>>

\* C7: in the file tier no step changes the tokenEntries or the activities
\* of a session whose endTime is non-null.
C7_EndedSessionsImmutable ==
  [][\A i \in 1..Len(sessions["file"]) :
       ~IsActive(sessions["file"][i]) =>
         /\ i <= Len(sessions'["file"])
         /\ sessions'["file"][i].tokenEntries = sessions["file"][i].tokenEntries
         /\ sessions'["file"][i].activities = sessions["file"][i].activities]_vars

\* C8: in every tier, a session record whose endTime is non-null never
\* again has endTime == null.
C8_EndedIsTerminal ==
  [][\A tier \in Tiers : \A i \in 1..Len(sessions[tier]) :
       ~IsActive(sessions[tier][i]) =>
         \A j \in 1..Len(sessions'[tier]) :
           sessions'[tier][j].id = sessions[tier][i].id => ~IsActive(sessions'[tier][j])]_vars

\* C9: in the file tier no step lowers a session's totalTokens.
C9_TotalTokensNeverDecrease ==
  [][\A i \in 1..Len(sessions["file"]) :
       /\ i <= Len(sessions'["file"])
       /\ sessions'["file"][i].totalTokens >= sessions["file"][i].totalTokens]_vars

\* C10: no session's tokenEntries holds the same entry id twice.
C10_NoDuplicateEntryIds ==
  \A tier \in Tiers : \A i \in 1..Len(sessions[tier]) :
    LET ids == sessions[tier][i].tokenEntries
    IN \A a, b \in 1..Len(ids) : ids[a] = ids[b] => a = b

\* C11: right after a timeout sweep of a tier, with no time elapsed, a
\* second sweep of that tier ends no session, returns the empty list and
\* leaves the tier's sessions and pointer as they are; and a sweep leaves
\* every session that had already ended exactly as it was.
C11_SweepIdempotent ==
  [][\A tier \in Tiers :
       CheckAndEndTimedOutSessions(tier) =>
         LET again == checkAndEndTimedOutSessions(sessions'[tier], activeId'[tier],
                                                  history'[tier], now)
         IN /\ again.ended = {}
            /\ again.sessions = sessions'[tier]
            /\ again.activeId = activeId'[tier]
            /\ \A i \in 1..Len(sessions[tier]) :
                 ~IsActive(sessions[tier][i]) => sessions'[tier][i] = sessions[tier][i]]_vars

\* C11 witness: a sweep has just auto-ended a session after two hours
C11_Witness ==
  /\ result.op = "sweep"
  /\ result.ret = "ended"
  /\ \E tier \in Tiers : \E i \in 1..Len(sessions[tier]) :
       /\ sessions[tier][i].endTime = now
       /\ sessions[tier][i].description.hours = 2
       /\ activeId[tier] = NoId

\* C12: a step that is not an explicit end (endSession, or the start command
\* that calls it) ends an active session of the file tier
\* only if now - lastActivityTime >= threshold, and a sweep ends every active
\* session for which that holds; lastActivityTime is the latest of the start
\* time, the activities' timestamps and the timestamps of the entries the
\* session's tokenEntries reference (the instant in a logged entry's id, the
\* row's createdAt in a Reconciler id).
C12_SweepUsesLastActivity ==
  [][\A i \in 1..Len(sessions["file"]) :
       LET s0    == sessions["file"][i]
           s1    == sessions'["file"][i]
           times == {s0.startTime}
                      \cup {s0.activities[a].timestamp : a \in 1..Len(s0.activities)}
                      \cup {s0.tokenEntries[e][2] :
                              e \in {x \in 1..Len(s0.tokenEntries) : s0.tokenEntries[x][1] = "entry"}}
           last  == CHOOSE t \in times : \A u \in times : u <= t
       IN /\ (Stepped /\ IsActive(s0) /\ ~IsActive(s1)
                /\ result'.op \notin {"endSession", "startSessionCommand"})
               => now - last >= SESSION_TIMEOUT_MS
          /\ (CheckAndEndTimedOutSessions("file") /\ IsActive(s0)
                /\ now - last >= SESSION_TIMEOUT_MS)
               => ~IsActive(s1)]_vars

\* C13: when a step other than a merge ends a session (endSession, or the
\* sweep any operation runs), the session's totalTokens becomes the sum of
\* tokensUsed over the Entry Store entries its tokenEntries reference if
\* totalTokens was 0 and that sum is positive, and is unchanged otherwise.
C13_EndFinalisesTokens ==
  [][\A tier \in Tiers : \A i \in 1..Len(sessions[tier]) :
       LET s0  == sessions[tier][i]
           s1  == sessions'[tier][i]
           ids == {s0.tokenEntries[e] : e \in 1..Len(s0.tokenEntries)}
           sum == SumSeq([h \in 1..Len(history[tier]) |->
                            IF history[tier][h].entryId \in ids
                            THEN history[tier][h].tokensUsed ELSE 0])
       IN (Stepped /\ result'.op # "syncSessionsFromFileSystem"
             /\ IsActive(s0) /\ ~IsActive(s1))
          => s1.totalTokens = IF s0.totalTokens = 0 /\ sum > 0 THEN sum ELSE s0.totalTokens]_vars

\* C13 witness: the sweep has auto-ended a session whose total was 0 and
\* adopted the sum of its logged entry
C13_Witness ==
  /\ result.op = "sweep"
  /\ result.ret = "ended"
  /\ \E tier \in Tiers : \E i \in 1..Len(sessions[tier]) :
       /\ sessions[tier][i].endTime = now
       /\ sessions[tier][i].tokenEntries # <<>>
       /\ sessions[tier][i].totalTokens = 1500

\* C14: endSession returns null and changes no session record when the
\* pointer does not name a session with endTime == null; otherwise it stamps
\* endTime on exactly the session the pointer names, clears the pointer and
\* returns that session.
C14_EndSessionContract ==
  [][\A tier \in Tiers, text \in EndDescriptions :
       EndSession(tier, text) =>
         LET open == {i \in 1..Len(sessions[tier]) :
                        /\ sessions[tier][i].id = activeId[tier]
                        /\ sessions[tier][i].endTime = NoTime}
         IN IF activeId[tier] = NoId \/ open = {}
            THEN /\ result'.ret = "null"
                 /\ sessions'[tier] = sessions[tier]
            ELSE /\ result'.ret = "ended"
                 /\ result'.sid = activeId[tier]
                 /\ activeId'[tier] = NoId
                 /\ Len(sessions'[tier]) = Len(sessions[tier])
                 /\ \A i \in 1..Len(sessions[tier]) :
                      IF i \in open
                      THEN sessions'[tier][i].endTime = now
                      ELSE sessions'[tier][i] = sessions[tier][i]]_vars

\* C15: getActiveSession returns the session the pointer names exactly when
\* that session has endTime == null and now - lastActivityTime is below the
\* threshold, and null otherwise (so null when the pointer is absent, as
\* right after endSession); and it has swept: afterwards no session of the
\* tier that reached the threshold is still active.
C15_GetActiveSession ==
  [][\A tier \in Tiers :
       GetActiveSession(tier) =>
         LET last(s) ==
               LET times == {s.startTime}
                              \cup {s.activities[a].timestamp : a \in 1..Len(s.activities)}
                              \cup {history[tier][h].timestamp :
                                      h \in {x \in 1..Len(history[tier]) :
                                               \E e \in 1..Len(s.tokenEntries) :
                                                 s.tokenEntries[e] = history[tier][x].entryId}}
               IN CHOOSE t \in times : \A u \in times : u <= t
             live == {i \in 1..Len(sessions[tier]) :
                        /\ sessions[tier][i].id = activeId[tier]
                        /\ sessions[tier][i].endTime = NoTime
                        /\ now - last(sessions[tier][i]) < SESSION_TIMEOUT_MS}
         IN /\ IF activeId[tier] # NoId /\ live # {}
               THEN result'.ret = "session" /\ result'.sid = activeId[tier]
               ELSE result'.ret = "null"
            /\ \A i \in 1..Len(sessions'[tier]) :
                 sessions'[tier][i].endTime = NoTime
                   => now - last(sessions'[tier][i]) < SESSION_TIMEOUT_MS]_vars

\* C15 witness: getActiveSession has just returned null in a tier whose
\* session was ended by endSession at this very instant
C15_Witness ==
  /\ result.op = "getActiveSession"
  /\ result.ret = "null"
  /\ \E tier \in Tiers :
       /\ activeId[tier] = NoId
       /\ Len(sessions[tier]) = 1
       /\ sessions[tier][1].endTime = now
       /\ sessions[tier][1].description.hours = 0
       /\ now - sessions[tier][1].startTime < SESSION_TIMEOUT_MS

\* C16: after a merge every session id of the file tier is in the browser
\* cache exactly once, with the file tier's record, whatever the cache held
\* for that id before.
C16_FileRecordsWin ==
  [][(Stepped /\ result'.op = "syncSessionsFromFileSystem" /\ result'.ret = "merged")
       => \A i \in 1..Len(sessions["file"]) :
            LET copies == {j \in 1..Len(sessions'["cache"]) :
                             sessions'["cache"][j].id = sessions["file"][i].id}
            IN /\ Cardinality(copies) = 1
               /\ \A j \in copies : sessions'["cache"][j] = sessions["file"][i]]_vars

\* C16 witness: a merge has replaced a cached record whose endTime differed:
\* the cache started its second session, so it held the first one as ended,
\* before the instant at which the file tier ended it
C16_Witness ==
  /\ result.op = "syncSessionsFromFileSystem"
  /\ result.ret = "merged"
  /\ Len(sessions["file"]) = 1
  /\ Len(sessions["cache"]) = 2
  /\ sessions["cache"][1] = sessions["file"][1]
  /\ sessions["cache"][2].id # sessions["file"][1].id
  /\ sessions["cache"][1].endTime > sessions["cache"][2].startTime

\* C17: a merge leaves every session whose id the file tier does not hold
\* in the browser cache, at its place and with all fields unchanged.
C17_CacheOnlySessionsKept ==
  [][(Stepped /\ result'.op = "syncSessionsFromFileSystem")
       => \A j \in 1..Len(sessions["cache"]) :
            (\A i \in 1..Len(sessions["file"]) :
               sessions["file"][i].id # sessions["cache"][j].id)
              => /\ j <= Len(sessions'["cache"])
                 /\ sessions'["cache"][j] = sessions["cache"][j]]_vars

\* C17 witness: a merge has brought a file-tier session into a cache that
\* holds a session of its own, with an activity, which the file tier lacks
C17_Witness ==
  /\ result.op = "syncSessionsFromFileSystem"
  /\ result.ret = "merged"
  /\ \E j \in 1..Len(sessions["cache"]) :
       /\ \A i \in 1..Len(sessions["file"]) :
            sessions["file"][i].id # sessions["cache"][j].id
       /\ Len(sessions["cache"][j].activities) > 0
       /\ \E k \in 1..Len(sessions["cache"]) :
            k > j /\ sessions["cache"][k] = sessions["file"][1]

\* C18: after a merge the browser cache's active-session pointer equals the
\* file tier's pointer, absent when the file tier has no active session.
C18_PointerFollowsFileTier ==
  [][(Stepped /\ result'.op = "syncSessionsFromFileSystem" /\ result'.ret = "merged")
       => activeId'["cache"] = activeId["file"]]_vars

\* C19: a syncProjects that reaches the remote store and finds a document
\* there lets the higher stamp win: with the remote stamp higher, the local
\* list and stamp become the remote ones and the remote document is not
\* written; with the local stamp higher, the remote document takes the local
\* list.
C19_HigherStampWins ==
  [][(SyncProjects("none") /\ store.remote.stored)
       => /\ store.remote.version > store.zhong_projects_version
               => /\ store'.zhong_projects = store.remote.projects
                  /\ store'.zhong_projects_version = store.remote.version
                  /\ store'.projectsData = store.remote.projects
                  /\ store'.remote = store.remote
          /\ store.zhong_projects_version > store.remote.version
               => store'.remote.projects = store.projectsData]_vars

\* C20: a sync whose endpoint or remote store is unreachable or fails
\* returns to its caller (with its failure value where it has one) and
\* leaves the cached sessions, the cache pointer, the local project list and
\* the local stamp as they were.
C20_FailedSyncKeepsLocalState ==
  [][(\/ SyncSessionsFromFileSystem(FALSE)
      \/ \E failure \in Failures \ {"none"} :
           \/ SyncProjects(failure)
           \/ \E code \in Codes : SaveSessionAnalytics(code, failure)
           \/ \E code \in Codes : LoadSessionAnalytics(code, failure))
       => /\ result'.ret \in {"skipped", "failed", "local", "pushed",
                              "true", "false", "analytics", "null"}
          /\ sessions'["cache"] = sessions["cache"]
          /\ activeId'["cache"] = activeId["cache"]
          /\ store'.projectsData = store.projectsData
          /\ store'.zhong_projects = store.zhong_projects
          /\ store'.zhong_projects_version = store.zhong_projects_version]_vars

\* C20 witness: syncProjects has failed with a newer document in the remote
\* store, a persisted local list and a session in the cache
C20_Witness ==
  /\ result.op = "syncProjects"
  /\ result.ret = "failed"
  /\ store.remote.stored
  /\ store.zhong_projects = "edited"
  /\ store.remote.version > store.zhong_projects_version
  /\ Len(sessions["cache"]) > 0

\* C21: with no manual token additions, the totalTokens of all sessions of
\* the file tier together never exceed the estimated tokens of all rows of
\* the external source together (no row is counted in two sessions).
C21_RowsCountedOnce ==
  counters.manual = 0
    => SumSeq([i \in 1..Len(sessions["file"]) |-> sessions["file"][i].totalTokens])
         <= SumSeq([i \in 1..Len(rows) |-> EstimatedTokens(rows[i])])

\* C22: a completed Reconciler pass adds to the session's promptGroups one
\* key per conversationId + requestId of its new rows that carry both ids,
\* and a per-minute key only for the new rows that lack one of them.
C22_PromptKeys ==
  [][(Stepped /\ result'.op = "syncTokens" /\ result'.ret = "synced")
       => \A k \in 1..Len(sessions["file"]) :
            sessions["file"][k].id = result'.sid
              => LET s     == sessions["file"][k]
                     fresh == {i \in 1..Len(rows) :
                                 /\ rows[i].createdAt >= s.startTime
                                 /\ ~Includes(s.tokenEntries, DerivedEntryId(rows[i]))}
                     key(r) == IF r.conversationId # "" /\ r.requestId # ""
                               THEN <<"conv", r.conversationId, r.requestId>>
                               ELSE <<"prompt", r.createdAt \div MINUTE_MS>>
                     after == sessions'["file"][k].promptGroups
                 IN {after[j] : j \in 1..Len(after)}
                      = {s.promptGroups[j] : j \in 1..Len(s.promptGroups)}
                          \cup {key(rows[i]) : i \in fresh}]_vars

\* C23: a Reconciler run that starts with no active session in the file
\* tier (no pointer, or no open session under the pointer) fails with the
\* no-active-session error and leaves the session file, the pointer and the
\* Entry Store as they were.
C23_NoActiveSessionNoMutation ==
  [][\A available \in BOOLEAN :
       (/\ SyncTokensToSession(available)
        /\ \/ activeId["file"] = NoId
           \/ \A i \in 1..Len(sessions["file"]) :
                sessions["file"][i].id = activeId["file"]
                  => sessions["file"][i].endTime # NoTime)
         => /\ result'.ret = "noActiveSession"
            /\ sessions'["file"] = sessions["file"]
            /\ activeId'["file"] = activeId["file"]
            /\ history'["file"] = history["file"]]_vars

\* C23 witness: the Reconciler has failed for want of an active session, with
\* rows in the source and the one session of the file tier ended by endSession
C23_Witness ==
  /\ result.op = "syncTokens"
  /\ result.ret = "noActiveSession"
  /\ activeId["file"] = NoId
  /\ Len(rows) > 0
  /\ Len(sessions["file"]) = 1
  /\ sessions["file"][1].endTime # NoTime
  /\ sessions["file"][1].description.hours = 0
  /\ rows[1].createdAt >= sessions["file"][1].startTime

\* C24: a Reconciler run with the external source missing or failing aborts
\* with an error and leaves every session's endTime, totalTokens,
\* tokenEntries and promptGroups and the pointer as they were.
C24_SourceUnavailableNoMutation ==
  [][SyncTokensToSession(FALSE)
       => /\ result'.ret \in {"sourceUnavailable", "noActiveSession"}
          /\ activeId'["file"] = activeId["file"]
          /\ Len(sessions'["file"]) = Len(sessions["file"])
          /\ \A i \in 1..Len(sessions["file"]) :
               /\ sessions'["file"][i].endTime = sessions["file"][i].endTime
               /\ sessions'["file"][i].totalTokens = sessions["file"][i].totalTokens
               /\ sessions'["file"][i].tokenEntries = sessions["file"][i].tokenEntries
               /\ sessions'["file"][i].promptGroups = sessions["file"][i].promptGroups]_vars

\* C24 (as the code has it): a Reconciler run with the external source
\* missing or failing aborts with an error; the sessions that had reached
\* the inactivity threshold are ended by the run's opening sweep (and the
\* pointer is removed if it named one of them), and every other session's
\* endTime, totalTokens, tokenEntries and promptGroups and otherwise the
\* pointer are as they were.
C24_SourceUnavailableOnlySweeps ==
  [][SyncTokensToSession(FALSE)
       => LET last(s) ==
                LET times == {s.startTime}
                               \cup {s.activities[a].timestamp : a \in 1..Len(s.activities)}
                               \cup {history["file"][h].timestamp :
                                       h \in {x \in 1..Len(history["file"]) :
                                                \E e \in 1..Len(s.tokenEntries) :
                                                  s.tokenEntries[e] = history["file"][x].entryId}}
                IN CHOOSE t \in times : \A u \in times : u <= t
              stale == {i \in 1..Len(sessions["file"]) :
                          /\ sessions["file"][i].endTime = NoTime
                          /\ now - last(sessions["file"][i]) >= SESSION_TIMEOUT_MS}
              open  == {i \in 1..Len(sessions["file"]) \ stale :
                          /\ sessions["file"][i].id = activeId["file"]
                          /\ sessions["file"][i].endTime = NoTime}
          IN /\ result'.ret = IF activeId["file"] # NoId /\ open # {}
                              THEN "sourceUnavailable" ELSE "noActiveSession"
             /\ activeId'["file"] =
                  IF \E i \in stale : sessions["file"][i].id = activeId["file"]
                  THEN NoId ELSE activeId["file"]
             /\ Len(sessions'["file"]) = Len(sessions["file"])
             /\ \A i \in stale : sessions'["file"][i].endTime = now
             /\ \A i \in 1..Len(sessions["file"]) \ stale :
                  /\ sessions'["file"][i].endTime = sessions["file"][i].endTime
                  /\ sessions'["file"][i].totalTokens = sessions["file"][i].totalTokens
                  /\ sessions'["file"][i].tokenEntries = sessions["file"][i].tokenEntries
                  /\ sessions'["file"][i].promptGroups = sessions["file"][i].promptGroups]_vars

\* C24 witness: the run has aborted for want of the source while the active
\* session, reconciled once before, had a further row waiting
C24_Witness ==
  /\ result.op = "syncTokens"
  /\ result.ret = "sourceUnavailable"
  /\ \E i \in 1..Len(sessions["file"]) :
       /\ sessions["file"][i].id = activeId["file"]
       /\ sessions["file"][i].endTime = NoTime
       /\ Len(sessions["file"][i].tokenEntries) = 1
       /\ Len(rows) = 2
       /\ \A r \in 1..2 : rows[r].hash # NoHash /\ rows[r].createdAt >= sessions["file"][i].startTime
       /\ DerivedEntryId(rows[1]) # DerivedEntryId(rows[2])

\* C25: a Reconciler pass over a batch that holds a row without a hash skips
\* that row and still adds every other new row of the batch to the active
\* session's tokenEntries and counts it in totalTokens.
C25_MissingHashSkipped ==
  [][(SyncTokensToSession(TRUE) /\ result'.ret # "noActiveSession")
       => \A k \in 1..Len(sessions["file"]) :
            sessions["file"][k].id = result'.sid
              => LET s     == sessions["file"][k]
                     fresh == {i \in 1..Len(rows) :
                                 /\ rows[i].createdAt >= s.startTime
                                 /\ rows[i].hash # NoHash
                                 /\ ~Includes(s.tokenEntries, DerivedEntryId(rows[i]))}
                     order == CHOOSE f \in [1..Cardinality(fresh) -> fresh] :
                                \A a, b \in 1..Cardinality(fresh) : a # b => f[a] # f[b]
                 IN /\ \A i \in fresh :
                         Includes(sessions'["file"][k].tokenEntries, DerivedEntryId(rows[i]))
                    /\ sessions'["file"][k].totalTokens
                         = s.totalTokens
                             + SumSeq([a \in 1..Cardinality(fresh) |->
                                         EstimatedTokens(rows[order[a]])])]_vars

\* C26: an import made right after a successful import, the source being
\* unchanged, leaves the Entry Store with the entries it had.
C26_ImportIdempotent ==
  [][((\E estimateTokens \in BOOLEAN : SyncFromCursorDatabase(estimateTokens, TRUE))
        /\ result.op = "syncFromCursorDatabase" /\ result.ret = "success")
       => /\ history'["file"] = history["file"]
          /\ older'["file"] = older["file"]]_vars

\* C27: after a logTokenUsage or an import the store holds at most
\* MAX_ENTRIES entries; entries are discarded only to come down to exactly
\* MAX_ENTRIES, the oldest first; what was held before and is retained keeps
\* its order, and the entries just appended are all retained, at the end.
C27_CapacityOldestFirst ==
  [][(Stepped /\ result'.op \in {"logTokenUsage", "syncFromCursorDatabase"})
       => \A tier \in Tiers :
            LET old == history[tier]
                new == history'[tier]
            IN /\ older'[tier] + Len(new) <= MAX_ENTRIES
               /\ older'[tier] <= older[tier]
               /\ \E d \in 0..Len(old) :
                    /\ Len(new) >= Len(old) - d
                    /\ SubSeq(new, 1, Len(old) - d) = SubSeq(old, d + 1, Len(old))
                    /\ d > 0 => older'[tier] = 0
                    /\ (d > 0 \/ older'[tier] < older[tier])
                         => older'[tier] + Len(new) = MAX_ENTRIES
               /\ (result'.op = "logTokenUsage" /\ <<older[tier], old>> # <<older'[tier], new>>)
                    => /\ new # <<>>
                       /\ new[Len(new)].entryId = LoggedEntryId(now, counters'.logs)
               /\ (result'.op = "syncFromCursorDatabase" /\ result'.ret = "success"
                      /\ tier = "file")
                    => \A r \in 1..Len(rows) :
                         \E e \in 1..Len(new) :
                           new[e].hash = rows[r].hash /\ new[e].timestamp = rows[r].createdAt]_vars

\* C27 witness: a logTokenUsage on a full store has discarded one of the
\* entries the store held and kept the new one
C27_Witness ==
  /\ result.op = "logTokenUsage"
  /\ older["file"] = MAX_ENTRIES - 1
  /\ Len(history["file"]) = 1
  /\ history["file"][1].timestamp = now

\* C28: getTokenHistory returns exactly the entries of the store that match
\* the time range (bounds included), project and operation given, ordered by
\* timestamp ascending, entries of equal timestamp in insertion order.
C28_QueryFilteredAndSorted ==
  [][\A options \in QueryOptions :
       GetTokenHistory(options)
         => LET all   == history["file"]
                match == {i \in 1..Len(all) :
                            /\ options.startDate = NoTime \/ all[i].timestamp >= options.startDate
                            /\ options.endDate = NoTime \/ all[i].timestamp <= options.endDate
                            /\ options.project = "" \/ all[i].project = options.project
                            /\ options.operation = "" \/ all[i].operation = options.operation}
                v     == result'.value
            IN /\ Len(v) = Cardinality(match)
               /\ \E f \in [1..Len(v) -> match] :
                    /\ \A i \in 1..Len(v) : v[i] = all[f[i]]
                    /\ \A i, j \in 1..Len(v) :
                         i < j => \/ all[f[i]].timestamp < all[f[j]].timestamp
                                  \/ /\ all[f[i]].timestamp = all[f[j]].timestamp
                                     /\ f[i] < f[j]]_vars

\* C29: when the remote count is not used, totalPrompts of loadSessionData
\* is the sum, over the stored sessions of the project code, of the number of
\* stored promptGroups of a session that has promptGroups and otherwise of
\* the number of minute keys of its entry ids (at least 1 with any entry).
C29_TotalPromptsDualPath ==
  [][(Stepped /\ result'.op = "loadSessionData" /\ ~result'.value.remote)
       => LET list == SelectSeq(sessions["cache"],
                                LAMBDA s : s.projectCode = result'.value.code)
          IN result'.value.totalPrompts
               = SumSeq([i \in 1..Len(list) |->
                           IF list[i].hasPromptGroups THEN Len(list[i].promptGroups)
                           ELSE IF Len(list[i].tokenEntries) > 0
                           THEN Max(Cardinality(MinuteGroups(list[i].tokenEntries)), 1)
                           ELSE 0])]_vars

\* C30: for a year in 2000..2099, any quarter, a platform among WEB, DATABASE,
\* API, UNITY and ZHONG and a number in 0..99, parsing the generated
\* identifier gives back the year, the quarter, the platform type and the number.
C30_ProjectIdRoundTrip ==
  (/\ result.op = "parseProjectId"
   /\ result.value.input.date.fullYear \in 2000..2099
   /\ result.value.input.type \in {"WEB", "DATABASE", "API", "UNITY", "ZHONG"}
   /\ result.value.input.projectNumber \in 0..99)
    => /\ result.value.parsed.matched
       /\ result.value.parsed.year = result.value.input.date.fullYear
       /\ result.value.parsed.quarter = (result.value.input.date.month \div 3) + 1
       /\ result.value.parsed.quarter \in 1..4
       /\ result.value.parsed.platformType = result.value.input.type
       /\ result.value.parsed.projectNumber = result.value.input.projectNumber

\* C30 witness: 2026, first quarter, WEB, 22 gave "26Q1W22" and was parsed back
C30_Witness ==
  /\ result.op = "parseProjectId"
  /\ result.value.input = [date |-> [fullYear |-> 2026, month |-> 0],
                           type |-> "WEB", projectNumber |-> 22]
  /\ result.value.projectId = <<"2", "6", "Q", "1", "W", "2", "2">>
  /\ result.value.parsed.year = 2026
  /\ result.value.parsed.quarter = 1
  /\ result.value.parsed.platformType = "WEB"
  /\ result.value.parsed.projectNumber = 22

\* C31: start-session.js run again for the same project code, right after a
\* run that created the session and with nothing else having happened,
\* leaves the file tier's sessions and active pointer as the first run left them.
C31_StartCommandIdempotent ==
  [][\A code \in Codes :
       (/\ StartSessionCommand(code)
        /\ result.op = "startSessionCommand"
        /\ result.ret = "created"
        /\ \E i \in 1..Len(sessions["file"]) :
             /\ sessions["file"][i].id = activeId["file"]
             /\ sessions["file"][i].projectCode = code)
         => /\ sessions'["file"] = sessions["file"]
            /\ activeId'["file"] = activeId["file"]]_vars

\* C32: a timeout sweep leaves every session that had already ended as it
\* was; when it ends no session it leaves the tier's sessions and pointer as
\* they were; and it changes the pointer only by clearing it, and exactly
\* when the pointer referenced a session that this sweep ended.
C32_SweepFrame ==
  [][\A tier \in Tiers :
       CheckAndEndTimedOutSessions(tier) =>
         LET before == sessions[tier]
             after  == sessions'[tier]
             ended  == {i \in 1..Len(before) : IsActive(before[i]) /\ ~IsActive(after[i])}
         IN /\ Len(after) = Len(before)
            /\ \A i \in 1..Len(before) : ~IsActive(before[i]) => after[i] = before[i]
            /\ ended = {} => (after = before /\ activeId'[tier] = activeId[tier])
            /\ activeId'[tier] = IF \E i \in ended : before[i].id = activeId[tier]
                                 THEN NoId ELSE activeId[tier]]_vars

\* C32 witness: a sweep has ended a session the pointer did not reference,
\* and the pointer still references the other, active session
C32_Witness ==
  /\ result.op = "sweep"
  /\ result.ret = "ended"
  /\ \E tier \in Tiers : \E i, j \in 1..Len(sessions[tier]) :
       /\ sessions[tier][i].endTime = now
       /\ sessions[tier][i].description.hours > 0
       /\ sessions[tier][j].id = activeId[tier]
       /\ IsActive(sessions[tier][j])

\* C33: for a session whose entries all come from Reconciler passes, the
\* number of minute keys the Aggregator's fallback extracts from the entry
\* ids, and the fallback count itself, equal the number of promptGroups keys
\* the Reconciler stored.
C33_FallbackMatchesStoredGroups ==
  \A tier \in Tiers : \A i \in 1..Len(sessions[tier]) :
    LET s == sessions[tier][i]
    IN /\ Cardinality(MinuteGroups(s.tokenEntries)) = Len(s.promptGroups)
       /\ PromptsOf(NewSession(s)) = Len(s.promptGroups)

\* C33 witness: the cache holds a session with entries of two minutes, one
\* of them from a row without conversationId and requestId, and two stored keys
C33_Witness ==
  /\ \E r \in 1..Len(rows) : rows[r].conversationId = "" /\ rows[r].requestId = ""
  /\ \E i \in 1..Len(sessions["cache"]) :
       /\ sessions["cache"][i].hasPromptGroups
       /\ Len(sessions["cache"][i].promptGroups) = 2
       /\ Len(sessions["cache"][i].tokenEntries) = 2
       /\ Cardinality(MinuteGroups(sessions["cache"][i].tokenEntries)) = 2

\* C34: a session the sweep auto-ends keeps its description when it had a
\* non-empty one; otherwise it receives the synthesized description, whose
\* number of hours is the inactivity (now - lastActivityTime) rounded to the
\* nearest integer.
C34_AutoEndDescription ==
  [][\A tier \in Tiers :
       CheckAndEndTimedOutSessions(tier) =>
         \A i \in 1..Len(sessions[tier]) :
           LET s0       == sessions[tier][i]
               s1       == sessions'[tier][i]
               inactive == now - getLastActivityTime(s0, history[tier])
           IN (IsActive(s0) /\ ~IsActive(s1))
                => IF s0.description.text # ""
                   THEN s1.description = s0.description
                   ELSE /\ s1.description.text = "Auto-ended after N hours of inactivity"
                        /\ 2 * s1.description.hours * HOUR_MS <= 2 * inactive + HOUR_MS
                        /\ 2 * inactive + HOUR_MS < 2 * (s1.description.hours + 1) * HOUR_MS]_vars

\* C34 witness: a sweep has auto-ended, after 3 hours and 29 minutes, a
\* session without description: its description mentions 3 hours
C34_Witness ==
  /\ result.op = "sweep"
  /\ result.ret = "ended"
  /\ \E tier \in Tiers : \E i \in 1..Len(sessions[tier]) :
       /\ sessions[tier][i].endTime = now
       /\ sessions[tier][i].startTime = 0
       /\ now = 12540000
       /\ sessions[tier][i].description.text = "Auto-ended after N hours of inactivity"
       /\ sessions[tier][i].description.hours = 3

\* C35: getSessions(filter) returns exactly the stored sessions that satisfy
\* every predicate given (projectId, 0 included; projectCode; startTime
\* within the date range; active only), each once, sorted by startTime
\* descending.
C35_GetSessionsFilters ==
  [][\A options \in SessionFilters :
       GetSessions("cache", options) =>
         LET stored == sessions["cache"]
             match  == {i \in 1..Len(stored) :
                          /\ options.projectId = Undefined \/ stored[i].projectId = options.projectId
                          /\ options.projectCode = "" \/ stored[i].projectCode = options.projectCode
                          /\ options.startDate = NoTime \/ stored[i].startTime >= options.startDate
                          /\ options.endDate = NoTime \/ stored[i].startTime <= options.endDate
                          /\ ~options.activeOnly \/ stored[i].endTime = NoTime}
             got    == result'.value.sessions
         IN /\ Len(got) = Cardinality(match)
            /\ {got[j].id : j \in 1..Len(got)} = {stored[i].id : i \in match}
            /\ \A j \in 1..(Len(got) - 1) : got[j].startTime >= got[j + 1].startTime]_vars

\* C36: once two processes that ran startSession on the file tier, empty
\* beforehand, have both returned, the session file holds at most one
\* session whose endTime is null, and the pointer references it.
C36_ConcurrentStartOneActive ==
  (\A p \in Procs : procs[p].pc = "done")
    => LET open == {i \in 1..Len(sessions["file"]) : IsActive(sessions["file"][i])}
       IN /\ Cardinality(open) <= 1
          /\ \A i \in open : activeId["file"] = sessions["file"][i].id

\* C37: every session of the session file that has an endTime when a
\* Reconciler run writes the file back is in the file, with an endTime,
\* after the write.
C37_ReconcilerKeepsEnded ==
  [][\A p \in Procs :
       ReconcilerWrite(p) =>
         \A i \in 1..Len(sessions["file"]) :
           ~IsActive(sessions["file"][i])
             => \E j \in 1..Len(sessions'["file"]) :
                  /\ sessions'["file"][j].id = sessions["file"][i].id
                  /\ ~IsActive(sessions'["file"][j])]_vars

\* C38: in each tier, between operations, a pointer that is set references
\* a session of that tier's store whose endTime is null.
C38_PointerReferencesOpenSession ==
  \A tier \in Tiers :
    activeId[tier] # NoId
      => \E i \in 1..Len(sessions[tier]) :
           /\ sessions[tier][i].id = activeId[tier]
           /\ IsActive(sessions[tier][i])

----------------------------------------------------------------------------
(* logTokenUsage's deferred association, scheduled as the runtime does *)

\* Steps left for every queued Promise.resolve().then(...) callback: a
\* callback that was queued always gets to run
Reserve == counters.steps > 1 + Len(pending["file"]) + Len(pending["cache"])

InitDeferred == Fresh(MaxDeferredSteps)

NextDeferred ==
  \/ Reserve /\ Tick
  \/ Reserve /\ \E tier \in Tiers, code \in Codes : StartSession(tier, code, "")
  \/ Reserve /\ \E tier \in Tiers : EndSession(tier, "")
  \/ Reserve /\ \E tier \in Tiers : CheckAndEndTimedOutSessions(tier)
  \/ Reserve /\ \E tier \in Tiers, tokens \in LoggedTokens : LogTokenUsage(tier, tokens)
  \/ \E tier \in Tiers : Associate(tier)

\* The microtask queue is drained: a queued callback is not postponed forever
SpecDeferred ==
  InitDeferred /\ [][NextDeferred]_vars /\ \A tier \in Tiers : WF_vars(Associate(tier))

\* C39: an entry that logTokenUsage stored with sessionId S is eventually
\* listed in S.tokenEntries, however the deferred association is ordered
\* relative to endSession and the sweep.
C39_StoredEntryEventuallyReferenced ==
  \A tier \in Tiers, sid \in SessionIds :
    (\E i \in 1..Len(history[tier]) : history[tier][i].sessionId = sid)
      ~> (\A i \in 1..Len(history[tier]) :
            history[tier][i].sessionId = sid
              => \E k \in 1..Len(sessions[tier]) :
                   /\ sessions[tier][k].id = sid
                   /\ Includes(sessions[tier][k].tokenEntries, history[tier][i].entryId))

----------------------------------------------------------------------------
(* detectSessionsFromCursor (session-manager.js) *)

\* options.maxGapMinutes || 60
MAX_GAP_MINUTES == 60

\* entries.sort((a, b) => new Date(a.timestamp) - new Date(b.timestamp))
RECURSIVE SortedByTimestamp(_)
SortedByTimestamp(s) ==
  IF s = <<>> THEN <<>>
  ELSE LET front == SortedByTimestamp(SubSeq(s, 1, Len(s) - 1))
           last  == s[Len(s)]
           k     == Cardinality({i \in 1..Len(front) : front[i].timestamp <= last.timestamp})
       IN SubSeq(front, 1, k) \o <<last>> \o SubSeq(front, k + 1, Len(front))

\* The candidates of one conversation: a gap of more than maxGapMinutes
\* between consecutive entries starts a new candidate
RECURSIVE ConversationCandidates(_, _)
ConversationCandidates(conversationId, s) ==
  IF s = <<>> THEN <<>>
  ELSE LET front == ConversationCandidates(conversationId, SubSeq(s, 1, Len(s) - 1))
           entry == s[Len(s)]
           fresh == [conversationId |-> conversationId,
                     startTime      |-> entry.timestamp,
                     endTime        |-> entry.timestamp,
                     entries        |-> 1,
                     totalTokens    |-> entry.tokensUsed]
       IN IF front = <<>> THEN <<fresh>>
          ELSE IF entry.timestamp - front[Len(front)].endTime <= MAX_GAP_MINUTES * 60000
          THEN [front EXCEPT ![Len(front)].endTime     = entry.timestamp,
                             ![Len(front)].entries     = @ + 1,
                             ![Len(front)].totalTokens = @ + entry.tokensUsed]
          ELSE Append(front, fresh)

\* Group by conversationId in the order of first appearance, then split
RECURSIVE CandidatesOf(_, _)
CandidatesOf(conversationIds, entries) ==
  IF conversationIds = <<>> THEN <<>>
  ELSE ConversationCandidates(
         Head(conversationIds),
         SortedByTimestamp(SelectSeq(entries,
                                     LAMBDA e : e.conversationId = Head(conversationIds))))
       \o CandidatesOf(Tail(conversationIds), entries)

DetectedCandidates(entries) ==
  LET carrying == SelectSeq(entries, LAMBDA e : e.conversationId # "")
  IN CandidatesOf(Dedup([i \in 1..Len(carrying) |-> carrying[i].conversationId]), entries)

\* The session startSession returned, with the candidate's conversationId
\* when it is a new one
StartedForCandidate(started, nextId, conversationId) ==
  IF started.ret = "created"
  THEN [sessions |-> [started.sessions EXCEPT
                        ![Len(started.sessions)].conversationId = conversationId],
        activeId |-> started.activeId,
        nextId   |-> nextId + 1]
  ELSE [sessions |-> started.sessions, activeId |-> started.activeId, nextId |-> nextId]

\* startSession({conversationId, description, projectName}) of one candidate
StartForCandidate(st, candidate, hist, t) ==
  StartedForCandidate(startSession(st.sessions, st.activeId, hist, t, st.nextId, "",
                                   "Auto-detected from conversation"),
                      st.nextId, candidate.conversationId)

EndedForCandidate(ended, nextId) ==
  [sessions |-> ended.sessions, activeId |-> ended.activeId, nextId |-> nextId]

\* endSession() after the candidate's startSession
EndForCandidate(st, hist, t) ==
  EndedForCandidate(endSession(st.sessions, st.activeId, hist, t, ""), st.nextId)

\* candidates.forEach(...): startSession, then endSession(), for every
\* candidate whose conversation no stored session had before the loop.  The
\* entryId and sessionId written on the candidate's entries are not saved.
AutoCreate(candidates, existingConvIds, ss, act, hist, t, nextId) ==
  LET after[n \in 0..Len(candidates)] ==
        IF n = 0
        THEN [sessions |-> ss, activeId |-> act, nextId |-> nextId]
        ELSE IF candidates[n].conversationId \in existingConvIds
        THEN after[n - 1]
        ELSE EndForCandidate(StartForCandidate(after[n - 1], candidates[n], hist, t), hist, t)
  IN after[Len(candidates)]

\* detectSessionsFromCursor(options): the sessions and the pointer it leaves
detectSessionsFromCursor(ss, act, hist, t, nextId, autoCreate) ==
  IF autoCreate
  THEN AutoCreate(DetectedCandidates(hist),
                  {ss[i].conversationId : i \in 1..Len(ss)} \ {""},
                  ss, act, hist, t, nextId)
  ELSE [sessions |-> ss, activeId |-> act, nextId |-> nextId]

Detected(out, candidates) ==
  /\ out.nextId - 1 <= MaxSessions
  /\ sessions' = [sessions EXCEPT !["file"] = out.sessions]
  /\ activeId' = [activeId EXCEPT !["file"] = out.activeId]
  /\ result'   = [Returned("detectSessionsFromCursor", "candidates", NoId) EXCEPT
                    !.value = candidates]
  /\ counters' = Spent([counters EXCEPT !.sessions = out.nextId - 1])

DetectSessionsFromCursor(autoCreate) ==
  /\ Budget
  /\ Detected(detectSessionsFromCursor(sessions["file"], activeId["file"], history["file"],
                                       now, counters.sessions + 1, autoCreate),
              DetectedCandidates(history["file"]))
  /\ UNCHANGED <<procs, older, store, clock, rows, history, pending>>

\* The sessions of the file tier with the imported entries and the detection
InitDetect == Fresh(MaxDetectSteps)

NextDetect ==
  \/ Tick
  \/ \E code \in Codes : StartSession("file", code, "")
  \/ EndSession("file", "")
  \/ \E input \in RowInputs : AppendRow(input)
  \/ \E available \in BOOLEAN : SyncFromCursorDatabase(TRUE, available)
  \/ \E autoCreate \in BOOLEAN : DetectSessionsFromCursor(autoCreate)

SpecDetect == InitDetect /\ [][NextDetect]_vars

\* C40: detectSessionsFromCursor with autoCreate leaves a session that was
\* active before the call as it was: same record, endTime null, still the
\* session the pointer names.
C40_DetectKeepsActiveSession ==
  [][\A k \in 1..Len(sessions["file"]) :
       (/\ DetectSessionsFromCursor(TRUE)
        /\ sessions["file"][k].id = activeId["file"]
        /\ IsActive(sessions["file"][k]))
         => /\ activeId'["file"] = activeId["file"]
            /\ Len(sessions'["file"]) >= k
            /\ sessions'["file"][k] = sessions["file"][k]]_vars

====
